---- MODULE Spec2Model ----
(***************************************************************************)
(* Model of the pi-sniffrf radio tools.                                    *)
(*                                                                         *)
(*   SpecSearch  : AdaptiveScanner (adaptive_scanner.py): the brute-force  *)
(*                 configuration search and the per-configuration probe.   *)
(*   SpecCapture : RFCapture (rf_capture.py): a capture session.           *)
(*                                                                         *)
(* Time is counted in ticks of one poll sleep (time.sleep(0.001)).         *)
(***************************************************************************)
EXTENDS Integers, Sequences, FiniteSets, TLC

VARIABLES
    \* ---- AdaptiveScanner -------------------------------------------------
    pc,                 \* position of the adaptive scanner's control flow
    radio,              \* AdaptiveScanner.radio: the transceiver's registers
    duration,           \* duration_per_config handed to scan_all_combinations
    total_combinations, \* local of scan_all_combinations
    progress,           \* completed units of the Progress task
    it,                 \* positions of the five nested for-loops
    config,             \* the dict built for the current trial
    step,               \* next radio call of _scan_config's configuration block
    calls,              \* radio calls and sleeps completed by the current probe
    packets,            \* local list of _scan_config
    start_time,         \* local of _scan_config
    ret,                \* value returned by the last _scan_config call
    probe_exit,         \* how the last _scan_config call was left
    probed,             \* configurations handed to _scan_config so far
    result,             \* value returned by scan_all_combinations
    reports,            \* lines printed on the console
    \* ---- RFCapture -------------------------------------------------------
    cap_pc,             \* position of the capture session's control flow
    cap_radio,          \* RFCapture.radio
    channel,            \* RFCapture.channel
    captured_data,      \* RFCapture.captured_data
    is_capturing,       \* RFCapture.is_capturing
    channel_activity,   \* RFCapture.channel_activity, in insertion order
    cap_duration,       \* duration handed to start_capture
    scan_all,           \* scan_all handed to start_capture
    cap_start_time,     \* start_time of the running capture loop
    channel_start,      \* channel_start of _scan_all_channels
    sweep_channel,      \* loop variable of _scan_all_channels
    saved,              \* lines written by save_capture
    visited,            \* channels the running sweep has tuned the radio to
    stop_mark,          \* the log at the stop_capture call, and the polls since
    most_active,        \* most_active of capture_mode
    \* ---- RFRepeat --------------------------------------------------------
    rep_pc,             \* position of the replay session's control flow
    rep_radio,          \* RFRepeat.radio
    rep_channel,        \* RFRepeat.channel
    is_repeating,       \* RFRepeat.is_repeating
    rep_packets,        \* packets of repeat_from_file and repeat_sequence
    rep_index,          \* position of the for loop of repeat_sequence
    success_count,      \* success_count of repeat_sequence
    rep_log,            \* radio.write and time.sleep calls of the replay
    rep_stopped,        \* stop_repeat was called during repeat_sequence
    rep_result,         \* value returned by repeat_from_file
    file_read,          \* the text repeat_from_file has read
    \* ---- RFSniffer and main ----------------------------------------------
    ctl_pc,             \* position of main's control flow
    mode,               \* args.mode
    running,            \* RFSniffer.running
    arg_file,           \* whether args.file was given
    arg_channel,        \* args.channel
    releases,           \* powerDown calls on each radio so far
    signals,            \* SIGINT and SIGTERM signals delivered so far
    live_start,         \* start_time of live_repeat_mode
    live_data,          \* data of live_repeat_mode
    live_log,           \* payloads read by live_repeat_mode so far
    exit_cause,         \* the exception that left the try statement of main
    powerdowns,         \* powerDown calls so far, with the flags they found
    \* ---- spectrum sweep (scanner.py, scanner_cpp.py, scanner_rich.py) ----
    sweeper,            \* which of the three tools runs
    sw_pc,              \* position of the sweep's control flow
    sw_radio,           \* the radio of the sweep
    sw_duration,        \* duration of scanner.scan_spectrum, in dwell times
    start_timer,        \* start_timer of scanner.scan_spectrum
    values,             \* signals / values / display.values, entry ch + 1
    rep_counter,        \* rep_counter / display.current_rep
    sw_channel,         \* the loop variable channel / i
    found_signal,       \* found_signal
    sw_calls,           \* detection and flush calls of the current visit
    shown,              \* the character last printed for each channel
    sw_result,          \* what scan_spectrum handed back to main
    overrun,            \* channels selected after the duration had elapsed
    \* ---- AdaptiveScanner.continuous_scan ---------------------------------
    cs_pc,              \* position of continuous_scan's control flow
    output_file,        \* whether continuous_scan was handed an output file
    all_packets,        \* all_packets of continuous_scan
    windows,            \* _scan_config calls continuous_scan has made
    cs_result,          \* value returned by continuous_scan
    cs_saved,           \* packets written by _save_results
    cs_dropped,         \* packets held only by the frames the interrupt unwound
    \* ---- shared -----------------------------------------------------------
    now                 \* the clock read by time.time()

search_vars == <<pc, radio, duration, total_combinations, progress, it, config,
                 step, calls, packets, start_time, ret, probe_exit,
                 probed, result, reports>>

search_vars_but_radio == <<pc, duration, total_combinations, progress, it,
                           config, step, calls, packets, start_time, ret,
                           probe_exit, probed, result, reports>>

capture_vars_but_pc == <<cap_radio, channel, captured_data, is_capturing,
                         channel_activity, cap_duration, scan_all,
                         cap_start_time, channel_start, sweep_channel, saved,
                         visited, stop_mark>>

capture_vars == <<cap_pc, cap_radio, channel, captured_data, is_capturing,
                  channel_activity, cap_duration, scan_all, cap_start_time,
                  channel_start, sweep_channel, saved, visited, stop_mark>>

\* What the steps of the adaptive scanner leave alone, and likewise for the
\* capture session.
replay_vars_but_pc == <<rep_radio, rep_channel, is_repeating, rep_packets,
                        rep_index, success_count, rep_log, rep_stopped,
                        rep_result, file_read>>

replay_vars == <<rep_pc, rep_radio, rep_channel, is_repeating, rep_packets,
                 rep_index, success_count, rep_log, rep_stopped, rep_result,
                 file_read>>

controller_vars == <<ctl_pc, mode, running, arg_file, arg_channel, releases,
                     signals, live_start, live_data, live_log, exit_cause, powerdowns>>

sweep_vars == <<sweeper, sw_pc, sw_radio, sw_duration, start_timer, values,
                rep_counter, sw_channel, found_signal, sw_calls, shown,
                sw_result, overrun>>

continuous_vars == <<cs_pc, output_file, all_packets, windows, cs_result,
                     cs_saved, cs_dropped>>

outside_search  == <<capture_vars, most_active, replay_vars, controller_vars,
                     sweep_vars, continuous_vars>>
outside_continuous == <<capture_vars, most_active, replay_vars,
                        controller_vars, sweep_vars>>
outside_capture == <<search_vars, most_active, replay_vars, controller_vars,
                     sweep_vars, continuous_vars>>
outside_replay  == <<search_vars, capture_vars, most_active, controller_vars,
                     sweep_vars, continuous_vars, now>>
outside_sweep   == <<search_vars, capture_vars, most_active, replay_vars,
                     controller_vars, continuous_vars>>

vars == <<search_vars, capture_vars, most_active, replay_vars,
          controller_vars, sweep_vars, continuous_vars, now>>

----------------------------------------------------------------------------
(* Bounds *)

NumChannels == 2      \* channels tried by the search (the source tries 125)
MaxDuration == 2      \* largest per-trial duration, in ticks
MaxPayload  == 1      \* longest payload a read delivers
NumSweepChannels == 2 \* channels swept by a capture (the source sweeps 126)
DwellTicks  == 2      \* dwell on one swept channel, in ticks (the source: 0.1 s)
MaxCapDuration == 5   \* longest capture session, in ticks
MaxTableLen == 3      \* most channels in an activity table handed to max()
MaxLogLen == 2        \* most packets in a log handed to save_capture
MaxFileLines == 3     \* most lines in a file written by hand
MaxSignals == 2       \* most signals delivered to one run
NumSpectrumChannels == 3 \* channels of the spectrum sweep (the source: 126)
NumReps == 2          \* passes per batch, num_reps (the source: 100)
MaxSweepDuration == 2 \* longest scan_spectrum duration, in dwell times
LongRunPasses == 16   \* passes completed by a scan_spectrum that has run long

----------------------------------------------------------------------------
(* AdaptiveScanner.scan_all_combinations: the five enumerations *)

data_rates     == <<"RF24_250KBPS", "RF24_1MBPS", "RF24_2MBPS">>
crc_lengths    == <<"RF24_CRC_DISABLED", "RF24_CRC_8", "RF24_CRC_16">>
power_levels   == <<"RF24_PA_MIN", "RF24_PA_LOW", "RF24_PA_HIGH", "RF24_PA_MAX">>
address_widths == <<3, 4, 5>>
channels       == [i \in 1..NumChannels |-> i - 1]

DefaultChannelCount == 125

\* Variant: the address widths left out of the product.
ProductSizeNoWidth(n) ==
    Len(data_rates) * Len(crc_lengths) * Len(power_levels) * n

\* len(data_rates) * len(crc_lengths) * len(power_levels) * len(address_widths) * n
ProductSize(n) ==
    Len(data_rates) * Len(crc_lengths) * Len(power_levels) * Len(address_widths) * n

None == [none |-> TRUE]

\* Payloads a read can deliver: the empty list and the lists of 1..MaxPayload bytes.
Payloads == {[i \in 1..n |-> 16 * i + 1] : n \in 0..MaxPayload}

\* The transceiver as the tools see it: whether begin() answered, the mode and
\* the tuned channel.  The other settings are write-only for the tools; the
\* values written are kept in the call log.
RadioOff == [begun |-> FALSE, channel |-> 0, listening |-> FALSE]

FirstIt == [rate |-> 1, crc |-> 1, pa |-> 1, addr_width |-> 1, channel |-> 1]
NoConfig == [rate |-> "none", crc |-> "none", pa |-> "none", addr_width |-> 0,
             channel |-> 0]

\* Variant: the loops count as exhausted on reaching the last data rate.
ExhaustedEarly(i) == i.rate >= Len(data_rates)

\* The loops are exhausted when the outermost one has run past its list.
Exhausted(i) == i.rate > Len(data_rates)

\* The dict built at lines 69-75 from the loop variables.
ConfigAt(i) ==
    [rate |-> data_rates[i.rate], crc |-> crc_lengths[i.crc],
     pa |-> power_levels[i.pa], addr_width |-> address_widths[i.addr_width],
     channel |-> channels[i.channel]]

\* Variant: the loops nested the other way round, rate innermost.
AdvanceRateInnermost(i) ==
    IF i.rate < Len(data_rates) /\ i.channel <= Len(channels)
    THEN [i EXCEPT !.rate = @ + 1]
    ELSE IF i.crc < Len(crc_lengths)
         THEN [i EXCEPT !.rate = 1, !.crc = @ + 1]
    ELSE IF i.pa < Len(power_levels)
         THEN [i EXCEPT !.rate = 1, !.crc = 1, !.pa = @ + 1]
    ELSE IF i.addr_width < Len(address_widths)
         THEN [i EXCEPT !.rate = 1, !.crc = 1, !.pa = 1, !.addr_width = @ + 1]
    ELSE IF i.channel < Len(channels)
         THEN [i EXCEPT !.rate = 1, !.crc = 1, !.pa = 1, !.addr_width = 1,
                        !.channel = @ + 1]
    ELSE [i EXCEPT !.rate = Len(data_rates) + 1]

\* One step of the nested for-loops: channel innermost, rate outermost.
Advance(i) ==
    IF i.channel < Len(channels) THEN [i EXCEPT !.channel = @ + 1]
    ELSE IF i.addr_width < Len(address_widths)
         THEN [i EXCEPT !.channel = 1, !.addr_width = @ + 1]
    ELSE IF i.pa < Len(power_levels)
         THEN [i EXCEPT !.channel = 1, !.addr_width = 1, !.pa = @ + 1]
    ELSE IF i.crc < Len(crc_lengths)
         THEN [i EXCEPT !.channel = 1, !.addr_width = 1, !.pa = 1, !.crc = @ + 1]
    ELSE [i EXCEPT !.channel = 1, !.addr_width = 1, !.pa = 1, !.crc = 1,
                   !.rate = @ + 1]

\* The loop state the search starts from: every list is non-empty here.
StartIt == IF Len(channels) = 0 THEN [FirstIt EXCEPT !.rate = Len(data_rates) + 1]
           ELSE FirstIt

----------------------------------------------------------------------------
(* AdaptiveScanner._scan_config: the configuration block, lines 96-102 *)

NumConfigCalls == 7

Call(op, arg) == [op |-> op, arg |-> arg]
NoArg == "-"

\* Variant: the radio is put into listening mode before the channel is set.
ConfigCallListenEarly(k, c) ==
    CASE k = 1 -> Call("setDataRate", c.rate)
      [] k = 2 -> Call("setCRCLength", c.crc)
      [] k = 3 -> Call("setPALevel", c.pa)
      [] k = 4 -> Call("setAutoAck", "False")
      [] k = 5 -> Call("setAddressWidth", c.addr_width)
      [] k = 6 -> Call("startListening", NoArg)
      [] k = 7 -> Call("setChannel", c.channel)

\* The k-th call of the configuration block, with its argument.
ConfigCall(k, c) ==
    CASE k = 1 -> Call("setDataRate", c.rate)
      [] k = 2 -> Call("setCRCLength", c.crc)
      [] k = 3 -> Call("setPALevel", c.pa)
      [] k = 4 -> Call("setAutoAck", "False")
      [] k = 5 -> Call("setAddressWidth", c.addr_width)
      [] k = 6 -> Call("setChannel", c.channel)
      [] k = 7 -> Call("startListening", NoArg)

\* Effect of the k-th call of the configuration block on the radio.
ApplyCall(r, k, c) ==
    CASE k = 6 -> [r EXCEPT !.channel = c.channel]
      [] k = 7 -> [r EXCEPT !.listening = TRUE]
      [] OTHER -> r

\* Variant: the loop condition with <= for <.
WithinDurationInclusive(t, s, d) == t - s <= d

\* The loop condition of line 107.
WithinDuration(t, s, d) == t - s < d

\* The dict appended at lines 112-118.
Packet(t, data) == [timestamp |-> t, data |-> data, length |-> Len(data)]

\* Variant: the except clause hands back what was read before the failure.
ExceptReturnPartial(pkts) == pkts

\* What the except clause of lines 124-126 returns.
ExceptReturn(pkts) == <<>>

\* Variant: a single packet does not count as a detection.
DetectedSeveral(pkts) == Len(pkts) > 1

\* Line 79: "if packets".
Detected(pkts) == pkts # <<>>

----------------------------------------------------------------------------
(* AdaptiveScanner: state after construction *)

SearchIdle ==
    /\ pc = "init"
    /\ radio = RadioOff
    /\ duration \in 0..MaxDuration
    /\ total_combinations = 0
    /\ progress = 0
    /\ it = FirstIt
    /\ config = NoConfig
    /\ step = 1
    /\ calls = <<>>
    /\ packets = <<>>
    /\ start_time = 0
    /\ ret = <<>>
    /\ probe_exit = "none"
    /\ probed = <<>>
    /\ result = None
    /\ reports = <<>>

\* setup(), lines 30-35: begin() answers or the run ends in main's handler.
Setup ==
    /\ pc = "init"
    /\ \E ok \in BOOLEAN :
         IF ok
         THEN /\ radio' = [radio EXCEPT !.begun = TRUE]
              /\ reports' = Append(reports, "Radio initialized successfully")
              /\ pc' = "start"
         ELSE /\ radio' = radio
              /\ reports' = Append(reports, "Error: nRF24 not responding")
              /\ pc' = "failed"
    /\ UNCHANGED <<duration, total_combinations, progress, it, config, step,
                   calls, packets, start_time, now, ret, probe_exit, probed,
                   result>>
    /\ UNCHANGED outside_search

\* scan_all_combinations, lines 41-62: the lists, the total and the progress task.
StartSearch ==
    /\ pc = "start"
    /\ total_combinations' = ProductSize(Len(channels))
    /\ progress' = 0
    /\ it' = StartIt
    /\ pc' = "loop"
    /\ UNCHANGED <<radio, duration, config, step, calls, packets, start_time,
                   now, ret, probe_exit, probed, result, reports>>
    /\ UNCHANGED outside_search

\* Lines 69-77: build the config of the current loop position, call _scan_config.
CallScanConfig ==
    /\ pc = "loop"
    /\ ~Exhausted(it)
    /\ config' = ConfigAt(it)
    /\ probed' = Append(probed, ConfigAt(it))
    /\ step' = 1
    /\ calls' = <<>>
    /\ packets' = <<>>
    /\ probe_exit' = "none"
    /\ pc' = "cfg"
    /\ UNCHANGED <<radio, duration, total_combinations, progress, it,
                   start_time, now, ret, result, reports>>
    /\ UNCHANGED outside_search

\* Lines 96-102: the next call of the configuration block succeeds or raises.
ApplyConfig ==
    /\ pc = "cfg"
    /\ \E ok \in BOOLEAN :
         IF ok
         THEN /\ radio' = ApplyCall(radio, step, config)
              /\ calls' = Append(calls, ConfigCall(step, config))
              /\ step' = step + 1
              /\ pc' = IF step = NumConfigCalls THEN "clock" ELSE "cfg"
              /\ probe_exit' = probe_exit
         ELSE /\ pc' = "except"
              /\ probe_exit' = "config_error"
              /\ UNCHANGED <<radio, calls, step>>
    /\ UNCHANGED <<duration, total_combinations, progress, it, config, packets,
                   start_time, now, ret, probed, result, reports>>
    /\ UNCHANGED outside_search

\* Lines 104-105.
TakeStartTime ==
    /\ pc = "clock"
    /\ packets' = <<>>
    /\ start_time' = now
    /\ pc' = "while"
    /\ UNCHANGED <<radio, duration, total_combinations, progress, it, config,
                   step, calls, now, ret, probe_exit, probed, result, reports>>
    /\ UNCHANGED outside_search

\* Line 107: the while condition.
LoopGuard ==
    /\ pc = "while"
    /\ pc' = IF WithinDuration(now, start_time, duration) THEN "poll" ELSE "stop"
    /\ UNCHANGED <<radio, duration, total_combinations, progress, it, config,
                   step, calls, packets, start_time, now, ret, probe_exit,
                   probed, result, reports>>
    /\ UNCHANGED outside_search

\* Lines 108-118: available() is false, or a read delivers data (kept when
\* non-empty), or one of the two radio calls raises.
Poll ==
    /\ pc = "poll"
    /\ \/ /\ calls' = Append(calls, Call("available", NoArg))
          /\ packets' = packets
          /\ pc' = "sleep"
          /\ probe_exit' = probe_exit
       \/ \E data \in Payloads :
            /\ calls' = calls \o <<Call("available", NoArg), Call("read", NoArg)>>
            /\ packets' = IF data # <<>> THEN Append(packets, Packet(now, data))
                          ELSE packets
            /\ pc' = "sleep"
            /\ probe_exit' = probe_exit
       \/ /\ calls' = Append(calls, Call("available", NoArg))
          /\ packets' = packets
          /\ pc' = "except"
          /\ probe_exit' = "poll_error"
    /\ UNCHANGED <<radio, duration, total_combinations, progress, it, config,
                   step, start_time, now, ret, probed, result, reports>>
    /\ UNCHANGED outside_search

\* Line 119: time.sleep(0.001) lets one tick pass; the other statements of
\* the loop take no time on this scale.
Sleep ==
    /\ pc = "sleep"
    /\ now' = now + 1
    /\ calls' = Append(calls, Call("sleep", NoArg))
    /\ pc' = "while"
    /\ UNCHANGED <<radio, duration, total_combinations, progress, it, config,
                   step, packets, start_time, ret, probe_exit, probed, result,
                   reports>>
    /\ UNCHANGED outside_search

\* Lines 121-122: normal return; the locals of the call are gone.  The search
\* reads the clock only through differences inside one trial, so the clock
\* origin moves to the trial's end.
StopAndReturn ==
    /\ pc = "stop"
    /\ radio' = [radio EXCEPT !.listening = FALSE]
    /\ calls' = Append(calls, Call("stopListening", NoArg))
    /\ ret' = packets
    /\ probe_exit' = "expiry"
    /\ packets' = <<>>
    /\ step' = 1
    /\ now' = 0
    /\ start_time' = 0
    /\ pc' = "check"
    /\ UNCHANGED <<duration, total_combinations, progress, it, config, probed,
                   result, reports>>
    /\ UNCHANGED outside_search

\* Lines 124-126: except Exception.
HandleException ==
    /\ pc = "except"
    /\ radio' = [radio EXCEPT !.listening = FALSE]
    /\ calls' = Append(calls, Call("stopListening", NoArg))
    /\ ret' = ExceptReturn(packets)
    /\ packets' = <<>>
    /\ step' = 1
    /\ now' = 0
    /\ start_time' = 0
    /\ pc' = "check"
    /\ UNCHANGED <<duration, total_combinations, progress, it, config,
                   probe_exit, probed, result, reports>>
    /\ UNCHANGED outside_search

\* Lines 79-86: return on a detection, else advance the progress task and the
\* loops.  The log of the finished probe is closed.
CheckPackets ==
    /\ pc = "check"
    /\ IF Detected(ret)
       THEN /\ reports' = Append(reports, "DETECTED ACTIVITY!")
            /\ result' = [config |-> config, packets |-> ret]
            /\ pc' = "done"
            /\ UNCHANGED <<progress, it>>
       ELSE /\ progress' = progress + 1
            /\ it' = Advance(it)
            /\ pc' = "loop"
            /\ UNCHANGED <<reports, result>>
    /\ calls' = <<>>
    /\ UNCHANGED <<radio, duration, total_combinations, config, step,
                   packets, start_time, now, ret, probe_exit, probed>>
    /\ UNCHANGED outside_search

\* Lines 88-91: the loops ran out.
NotFound ==
    /\ pc = "loop"
    /\ Exhausted(it)
    /\ reports' = Append(reports, "No activity detected on any configuration")
    /\ result' = [config |-> None, packets |-> <<>>]
    /\ pc' = "done"
    /\ UNCHANGED <<radio, duration, total_combinations, progress, it, config,
                   step, calls, packets, start_time, now, ret, probe_exit,
                   probed>>
    /\ UNCHANGED outside_search

InProbe == pc \in {"cfg", "clock", "while", "poll", "sleep", "stop", "except"}

\* KeyboardInterrupt: not an Exception, so it passes the except clause of
\* _scan_config and ends the run in main, lines 254-255.  The frames of
\* _scan_config and scan_all_combinations are unwound and their locals are
\* gone; the radio stays as it was.
Interrupt ==
    /\ pc \in {"start", "loop", "check"} \/ InProbe
    /\ probe_exit' = IF InProbe
                     THEN (IF pc = "cfg" THEN "interrupt_config"
                           ELSE "interrupt_poll")
                     ELSE probe_exit
    /\ reports' = Append(reports, "Scan interrupted by user")
    /\ pc' = "interrupted"
    /\ total_combinations' = 0
    /\ progress' = 0
    /\ it' = FirstIt
    /\ config' = NoConfig
    /\ step' = 1
    /\ calls' = <<>>
    /\ packets' = <<>>
    /\ start_time' = 0
    /\ now' = 0
    /\ ret' = <<>>
    /\ UNCHANGED <<radio, duration, probed, result>>
    /\ UNCHANGED outside_search

SearchNext ==
    \/ Setup
    \/ StartSearch
    \/ CallScanConfig
    \/ ApplyConfig
    \/ TakeStartTime
    \/ LoopGuard
    \/ Poll
    \/ Sleep
    \/ StopAndReturn
    \/ HandleException
    \/ CheckPackets
    \/ NotFound
    \/ Interrupt

----------------------------------------------------------------------------
(* AdaptiveScanner.continuous_scan (adaptive_scanner.py, lines 165-199) *)

\* Bound of the model: _scan_config calls one continuous scan makes.
MaxWindows == 2

\* continuous_scan has not been called.
ContinuousOff ==
    /\ cs_pc = "off"
    /\ output_file = FALSE
    /\ all_packets = <<>>
    /\ windows = 0
    /\ cs_result = <<>>
    /\ cs_saved = <<>>
    /\ cs_dropped = <<>>

\* Lines 193-199: the handler returns all_packets and nothing else.
InterruptReturn(all, held) == all

\* Line 196: the file is written when a name was given and the list is
\* non-empty.
SavedOnInterrupt(file, all) == IF file /\ all # <<>> THEN all ELSE <<>>

\* Lines 186-187, all_packets.extend(packets) under "if packets".
Extended(all, pkts) == IF pkts # <<>> THEN all \o pkts ELSE all

\* Lines 171-178: the six setters and the empty list.
ContinuousStart ==
    /\ cs_pc = "start"
    /\ radio' = [radio EXCEPT !.channel = config.channel]
    /\ all_packets' = <<>>
    /\ cs_pc' = "loop"
    /\ UNCHANGED <<output_file, windows, cs_result, cs_saved, cs_dropped>>
    /\ UNCHANGED <<search_vars_but_radio, now>>
    /\ UNCHANGED outside_continuous

\* Lines 182-183: startListening, then the call of _scan_config.
WindowStart ==
    /\ cs_pc = "loop"
    /\ windows < MaxWindows
    /\ radio' = [radio EXCEPT !.listening = TRUE]
    /\ windows' = windows + 1
    /\ step' = 1
    /\ calls' = <<>>
    /\ packets' = <<>>
    /\ probe_exit' = "none"
    /\ pc' = "cfg"
    /\ cs_pc' = "window"
    /\ UNCHANGED <<duration, total_combinations, progress, it, config,
                   start_time, now, ret, probed, result, reports>>
    /\ UNCHANGED <<output_file, all_packets, cs_result, cs_saved, cs_dropped>>
    /\ UNCHANGED outside_continuous

\* Lines 184-189: _scan_config has returned; stopListening, then the
\* returned packets join all_packets.
WindowEnd ==
    /\ cs_pc = "window"
    /\ pc = "check"
    /\ radio' = [radio EXCEPT !.listening = FALSE]
    /\ all_packets' = Extended(all_packets, ret)
    /\ ret' = <<>>
    /\ calls' = <<>>
    /\ pc' = "done"
    /\ cs_pc' = "sleep"
    /\ UNCHANGED <<duration, total_combinations, progress, it, config, step,
                   packets, start_time, now, probe_exit, probed, result,
                   reports>>
    /\ UNCHANGED <<output_file, windows, cs_result, cs_saved, cs_dropped>>
    /\ UNCHANGED outside_continuous

\* Line 191: time.sleep(0.1); the loop reads the clock only inside a window.
WindowSleep ==
    /\ cs_pc = "sleep"
    /\ cs_pc' = "loop"
    /\ UNCHANGED <<output_file, all_packets, windows, cs_result, cs_saved,
                   cs_dropped>>
    /\ UNCHANGED <<search_vars, now>>
    /\ UNCHANGED outside_continuous

\* What the frames below the try statement hold and all_packets does not:
\* the local list of a running _scan_config, or its returned list before
\* line 187 has run.
HeldByWindow ==
    IF cs_pc # "window" THEN <<>>
    ELSE IF pc = "check" THEN ret
    ELSE packets

\* Lines 193-199: KeyboardInterrupt anywhere inside the try statement.  It is
\* not an Exception, so a running _scan_config is unwound without returning.
ContinuousInterrupt ==
    /\ cs_pc \in {"loop", "window", "sleep"}
    /\ cs_dropped' = HeldByWindow
    /\ cs_result' = InterruptReturn(all_packets, HeldByWindow)
    /\ cs_saved' = SavedOnInterrupt(output_file,
                                    InterruptReturn(all_packets, HeldByWindow))
    /\ reports' = Append(reports, "Scan interrupted by user")
    /\ probe_exit' = IF cs_pc = "window" /\ InProbe THEN "interrupt_poll"
                     ELSE probe_exit
    /\ packets' = <<>>
    /\ ret' = <<>>
    /\ calls' = <<>>
    /\ step' = 1
    /\ start_time' = 0
    /\ now' = 0
    /\ pc' = "done"
    /\ cs_pc' = "returned"
    /\ UNCHANGED <<radio, duration, total_combinations, progress, it, config,
                   probed, result>>
    /\ UNCHANGED <<output_file, all_packets, windows>>
    /\ UNCHANGED outside_continuous

ContinuousNext ==
    \/ ContinuousStart
    \/ WindowStart
    \/ ApplyConfig
    \/ TakeStartTime
    \/ LoopGuard
    \/ Poll
    \/ Sleep
    \/ StopAndReturn
    \/ HandleException
    \/ WindowEnd
    \/ WindowSleep
    \/ ContinuousInterrupt

----------------------------------------------------------------------------
(* RFCapture (rf_capture.py) *)

\* _scan_all_channels, lines 147-148, scaled to the bounds of the model.
channel_time   == DwellTicks
total_channels == NumSweepChannels

\* Channels the operator may ask a single-channel capture for.
CaptureChannels == {0, 76}

\* The text of a file that does not exist; a text is a sequence of characters.
NoFile == <<"no file">>

\* A packet whose length field is the size of the read buffer.
CapturedPacketBufferSize(t, data, ch) ==
    [timestamp |-> t, data |-> data, length |-> 32, channel |-> ch]

\* The dict appended at lines 130-137 and 184-191.
CapturedPacket(t, data, ch) ==
    [timestamp |-> t, data |-> data, length |-> Len(data), channel |-> ch]

\* The count of a channel when it is the only entry of the table, else 0.
ActivityOfLatest(act, ch) ==
    IF Len(act) = 1 /\ act[1].channel = ch THEN act[1].count ELSE 0

\* A table that keeps only the channel of the latest packet.
RecordActivityLatest(act, ch) ==
    <<[channel |-> ch, count |-> ActivityOfLatest(act, ch) + 1]>>

\* A table that stores 1 for the channel whenever a packet arrives.
RecordActivityOverwrite(act, ch) ==
    IF \E k \in 1..Len(act) : act[k].channel = ch
    THEN [k \in 1..Len(act) |->
            IF act[k].channel = ch THEN [act[k] EXCEPT !.count = 1]
            ELSE act[k]]
    ELSE Append(act, [channel |-> ch, count |-> 1])

\* Lines 180-182: the dict entry of a channel is created at 0 and incremented.
RecordActivity(act, ch) ==
    IF \E k \in 1..Len(act) : act[k].channel = ch
    THEN [k \in 1..Len(act) |->
            IF act[k].channel = ch THEN [act[k] EXCEPT !.count = @ + 1]
            ELSE act[k]]
    ELSE Append(act, [channel |-> ch, count |-> 1])

\* The count of a channel in the activity table, 0 when it has no entry.
ActivityOf(act, ch) ==
    IF \E k \in 1..Len(act) : act[k].channel = ch
    THEN act[CHOOSE k \in 1..Len(act) : act[k].channel = ch].count
    ELSE 0

\* A max() that lets a later item replace an equal one.
KeepLargerOrEqual(best, item) ==
    IF item.count >= best.count THEN item ELSE best

\* One step of max(items, key=lambda x: x[1]), line 218: an item replaces the
\* running maximum only when its count is strictly larger.
KeepLarger(best, item) ==
    IF item.count > best.count THEN item ELSE best

\* max() over the items from position k on, in insertion order.
RECURSIVE MaxItem(_, _, _)
MaxItem(act, k, best) ==
    IF k > Len(act) THEN best
    ELSE MaxItem(act, k + 1, KeepLarger(best, act[k]))

\* get_most_active_channel, lines 214-218.
get_most_active_channel(act) ==
    IF act = <<>> THEN None ELSE MaxItem(act, 2, act[1])

\* most_active before capture_mode has asked for it.
NotAsked == [asked |-> FALSE]

\* Activity tables a sweep can leave behind: distinct channels, in the order
\* of their first packet, each with a positive count.
TableChannels == {1, 3, 7}
TableCounts   == {2, 5}
ActivityTables ==
    {t \in UNION {[1..n -> [channel : TableChannels, count : TableCounts]] :
                     n \in 0..MaxTableLen} :
        \A j, k \in 1..Len(t) : j # k => t[j].channel # t[k].channel}

\* capture_mode, main.py line 71.
AskMostActive ==
    /\ most_active = NotAsked
    /\ most_active' = get_most_active_channel(channel_activity)
    /\ UNCHANGED <<continuous_vars, sweep_vars, search_vars, capture_vars, replay_vars, controller_vars,
                   now>>

\* The polls of lines 125 and 173 counted since stop_capture was called.
PollSeen(mark) ==
    IF mark = None THEN None ELSE [mark EXCEPT !.polls = @ + 1]

\* A loop condition that looks at the clock only.
SingleContinuesIgnoringStop == (now - cap_start_time) < cap_duration

\* The condition of the while loop of line 124.
SingleContinues == is_capturing /\ (now - cap_start_time) < cap_duration

\* The condition of the outer while loop of line 159.
SweepContinues == is_capturing /\ (now - cap_start_time) < cap_duration

\* The condition of the inner while loop of lines 168-172.
DwellContinues ==
    /\ is_capturing
    /\ (now - channel_start) < channel_time
    /\ (now - cap_start_time) < cap_duration

CaptureIdle ==
    /\ cap_pc = "init"
    /\ cap_radio = RadioOff
    /\ channel \in CaptureChannels
    /\ captured_data = <<>>
    /\ is_capturing = FALSE
    /\ channel_activity = <<>>
    /\ cap_duration \in 0..MaxCapDuration
    /\ scan_all \in BOOLEAN
    /\ cap_start_time = 0
    /\ channel_start = 0
    /\ sweep_channel = 0
    /\ saved = NoFile
    /\ visited = <<>>
    /\ stop_mark = None

\* A setup that configures the radio and starts listening whatever begin()
\* returns.
CaptureSetupUnchecked ==
    /\ cap_pc = "init"
    /\ \E ok \in BOOLEAN :
         /\ cap_radio' = [begun |-> ok, channel |-> channel, listening |-> TRUE]
         /\ cap_pc' = "ready"
    /\ UNCHANGED <<channel, captured_data, is_capturing, channel_activity,
                   cap_duration, scan_all, cap_start_time, channel_start,
                   sweep_channel, saved, visited, stop_mark, now>>
    /\ UNCHANGED outside_capture

\* setup(), lines 22-37.
CaptureSetup ==
    /\ cap_pc = "init"
    /\ \E ok \in BOOLEAN :
         IF ok
         THEN /\ cap_radio' = [begun |-> TRUE, channel |-> channel,
                               listening |-> TRUE]
              /\ cap_pc' = "ready"
         ELSE /\ cap_radio' = cap_radio
              /\ cap_pc' = "failed"
    /\ UNCHANGED <<channel, captured_data, is_capturing, channel_activity,
                   cap_duration, scan_all, cap_start_time, channel_start,
                   sweep_channel, saved, visited, stop_mark, now>>
    /\ UNCHANGED outside_capture

\* start_capture, lines 41-63, up to the call of the capture loop and its
\* first statement (lines 123 and 146).
StartCapture ==
    /\ cap_pc = "ready"
    /\ is_capturing' = TRUE
    /\ captured_data' = <<>>
    /\ channel_activity' = <<>>
    /\ cap_start_time' = now
    /\ cap_pc' = IF scan_all THEN "sweep_while" ELSE "single_while"
    /\ visited' = <<>>
    /\ stop_mark' = None
    /\ UNCHANGED <<cap_radio, channel, cap_duration, scan_all, channel_start,
                   sweep_channel, saved, now>>
    /\ UNCHANGED outside_capture

\* _capture_single_channel, line 124.
SingleGuard ==
    /\ cap_pc = "single_while"
    /\ cap_pc' = IF SingleContinues THEN "single_poll" ELSE "finish"
    /\ UNCHANGED <<cap_radio, channel, captured_data, is_capturing,
                   channel_activity, cap_duration, scan_all, cap_start_time,
                   channel_start, sweep_channel, saved, visited, stop_mark, now>>
    /\ UNCHANGED outside_capture

\* A poll whose log holds the latest packet only.
SinglePollLatest ==
    /\ cap_pc = "single_poll"
    /\ \/ captured_data' = captured_data
       \/ \E data \in Payloads :
            captured_data' =
                IF Len(data) > 0
                THEN <<CapturedPacket(now, data, channel)>>
                ELSE captured_data
    /\ cap_pc' = "single_sleep"
    /\ stop_mark' = PollSeen(stop_mark)
    /\ UNCHANGED <<cap_radio, channel, is_capturing, channel_activity,
                   cap_duration, scan_all, cap_start_time, channel_start,
                   sweep_channel, saved, visited, now>>
    /\ UNCHANGED outside_capture

\* _capture_single_channel, lines 125-140: nothing available, or a payload of
\* the reported size is read and logged when that size is positive.
SinglePoll ==
    /\ cap_pc = "single_poll"
    /\ \/ captured_data' = captured_data
       \/ \E data \in Payloads :
            captured_data' =
                IF Len(data) > 0
                THEN Append(captured_data, CapturedPacket(now, data, channel))
                ELSE captured_data
    /\ cap_pc' = "single_sleep"
    /\ stop_mark' = PollSeen(stop_mark)
    /\ UNCHANGED <<cap_radio, channel, is_capturing, channel_activity,
                   cap_duration, scan_all, cap_start_time, channel_start,
                   sweep_channel, saved, visited, now>>
    /\ UNCHANGED outside_capture

\* A sleep during which the clock does not move.
SingleSleepNoTime ==
    /\ cap_pc = "single_sleep"
    /\ now' = now
    /\ cap_pc' = "single_while"
    /\ UNCHANGED capture_vars_but_pc
    /\ UNCHANGED outside_capture

\* _capture_single_channel, line 142.
SingleSleep ==
    /\ cap_pc = "single_sleep"
    /\ now' = now + 1
    /\ cap_pc' = "single_while"
    /\ UNCHANGED capture_vars_but_pc
    /\ UNCHANGED outside_capture

\* _scan_all_channels, line 159; the for loop of line 160 starts at channel 0.
SweepGuard ==
    /\ cap_pc = "sweep_while"
    /\ IF SweepContinues
       THEN sweep_channel' = 0 /\ cap_pc' = "sweep_for"
       ELSE sweep_channel' = sweep_channel /\ cap_pc' = "finish"
    /\ UNCHANGED <<cap_radio, channel, captured_data, is_capturing,
                   channel_activity, cap_duration, scan_all, cap_start_time,
                   channel_start, saved, visited, stop_mark, now>>
    /\ UNCHANGED outside_capture

\* _scan_all_channels, lines 160-165: the for loop ends, breaks, or tunes the
\* radio to the next channel and notes the time.
SweepFor ==
    /\ cap_pc = "sweep_for"
    /\ IF sweep_channel >= total_channels \/ ~is_capturing
       THEN /\ cap_pc' = "sweep_while"
            /\ UNCHANGED <<cap_radio, channel_start, visited>>
       ELSE /\ cap_radio' = [cap_radio EXCEPT !.channel = sweep_channel]
            /\ visited' = Append(visited, sweep_channel)
            /\ channel_start' = now
            /\ cap_pc' = "dwell_while"
    /\ UNCHANGED <<channel, captured_data, is_capturing, channel_activity,
                   cap_duration, scan_all, cap_start_time, sweep_channel,
                   saved, stop_mark, now>>
    /\ UNCHANGED outside_capture

\* _scan_all_channels, lines 168-172 and 200: the dwell goes on, or the
\* progress task is advanced and the for loop takes the next channel.
DwellGuard ==
    /\ cap_pc = "dwell_while"
    /\ IF DwellContinues
       THEN sweep_channel' = sweep_channel /\ cap_pc' = "dwell_poll"
       ELSE sweep_channel' = sweep_channel + 1 /\ cap_pc' = "sweep_for"
    /\ UNCHANGED <<cap_radio, channel, captured_data, is_capturing,
                   channel_activity, cap_duration, scan_all, cap_start_time,
                   channel_start, saved, visited, stop_mark, now>>
    /\ UNCHANGED outside_capture

\* _scan_all_channels, lines 173-195.
DwellPoll ==
    /\ cap_pc = "dwell_poll"
    /\ \/ UNCHANGED <<captured_data, channel_activity>>
       \/ \E data \in Payloads :
            IF Len(data) > 0
            THEN /\ channel_activity' =
                        RecordActivity(channel_activity, sweep_channel)
                 /\ captured_data' =
                        Append(captured_data,
                               CapturedPacket(now, data, sweep_channel))
            ELSE UNCHANGED <<captured_data, channel_activity>>
    /\ cap_pc' = "dwell_sleep"
    /\ stop_mark' = PollSeen(stop_mark)
    /\ UNCHANGED <<cap_radio, channel, is_capturing, cap_duration, scan_all,
                   cap_start_time, channel_start, sweep_channel, saved,
                   visited, now>>
    /\ UNCHANGED outside_capture

\* _scan_all_channels, line 197.
DwellSleep ==
    /\ cap_pc = "dwell_sleep"
    /\ now' = now + 1
    /\ cap_pc' = "dwell_while"
    /\ UNCHANGED capture_vars_but_pc
    /\ UNCHANGED outside_capture

\* start_capture, lines 65-68.
FinishCapture ==
    /\ cap_pc = "finish"
    /\ is_capturing' = FALSE
    /\ cap_pc' = "returned"
    /\ UNCHANGED <<cap_radio, channel, captured_data, channel_activity,
                   cap_duration, scan_all, cap_start_time, channel_start,
                   sweep_channel, saved, visited, stop_mark, now>>
    /\ UNCHANGED outside_capture

\* str() of a non-negative int.
Digits == <<"0", "1", "2", "3", "4", "5", "6", "7", "8", "9">>
RECURSIVE DecimalOf(_)
DecimalOf(n) ==
    IF n < 10 THEN <<Digits[n + 1]>>
    ELSE DecimalOf(n \div 10) \o <<Digits[(n % 10) + 1]>>

\* str() of the float returned by time.time(), for a whole number of ticks.
FloatText(t) == DecimalOf(t) \o <<".", "0">>

HexDigits == <<"0", "1", "2", "3", "4", "5", "6", "7", "8", "9",
               "a", "b", "c", "d", "e", "f">>

\* A byte written without its leading zero.
HexOfByteUnpadded(b) ==
    IF b < 16 THEN <<HexDigits[b + 1]>>
    ELSE <<HexDigits[(b \div 16) + 1], HexDigits[(b % 16) + 1]>>

\* bytes.hex() of one byte: two lowercase digits.
HexOfByte(b) == <<HexDigits[(b \div 16) + 1], HexDigits[(b % 16) + 1]>>

\* bytes.hex(), line 226.
RECURSIVE hex(_)
hex(data) ==
    IF data = <<>> THEN <<>> ELSE HexOfByte(Head(data)) \o hex(Tail(data))

\* The line written for one packet, line 226.
WrittenLine(packet) ==
    FloatText(packet.timestamp) \o <<",">> \o DecimalOf(packet.channel)
        \o <<",">> \o DecimalOf(packet.length) \o <<",">> \o hex(packet.data)
        \o <<"\n">>

\* The characters save_capture writes for a log, lines 224-226.
RECURSIVE WrittenText(_)
WrittenText(log) ==
    IF log = <<>> THEN <<>>
    ELSE WrittenLine(Head(log)) \o WrittenText(Tail(log))

\* save_capture, lines 220-227, called after start_capture has returned.
SaveCapture ==
    /\ cap_pc = "returned"
    /\ saved' = WrittenText(captured_data)
    /\ cap_pc' = "saved"
    /\ UNCHANGED <<cap_radio, channel, captured_data, is_capturing,
                   channel_activity, cap_duration, scan_all, cap_start_time,
                   channel_start, sweep_channel, visited, stop_mark, now>>
    /\ UNCHANGED outside_capture

Capturing == cap_pc \in {"single_while", "single_poll", "single_sleep",
                         "sweep_while", "sweep_for", "dwell_while",
                         "dwell_poll", "dwell_sleep", "finish"}

\* stop_capture, lines 202-204, called while the session runs.
StopCapture ==
    /\ Capturing
    /\ is_capturing
    /\ is_capturing' = FALSE
    /\ stop_mark' = [log |-> captured_data, polls |-> 0]
    /\ UNCHANGED <<cap_pc, cap_radio, channel, captured_data, channel_activity,
                   cap_duration, scan_all, cap_start_time, channel_start,
                   sweep_channel, saved, visited, now>>
    /\ UNCHANGED outside_capture

\* The clock also moves between two statements of a capture loop.
CaptureTick ==
    /\ cap_pc \in {"single_while", "dwell_while", "sweep_while"}
    /\ now - cap_start_time < cap_duration
    /\ now' = now + 1
    /\ UNCHANGED capture_vars
    /\ UNCHANGED outside_capture

\* stop_capture, lines 202-204, called between setup() and start_capture.
EarlyStop ==
    /\ cap_pc = "ready"
    /\ stop_mark = None
    /\ is_capturing' = FALSE
    /\ stop_mark' = [log |-> captured_data, polls |-> 0]
    /\ UNCHANGED <<cap_pc, cap_radio, channel, captured_data, channel_activity,
                   cap_duration, scan_all, cap_start_time, channel_start,
                   sweep_channel, saved, visited, now>>
    /\ UNCHANGED outside_capture

CaptureNext ==
    \/ CaptureSetup
    \/ StartCapture
    \/ SingleGuard
    \/ SinglePoll
    \/ SingleSleep
    \/ SweepGuard
    \/ SweepFor
    \/ DwellGuard
    \/ DwellPoll
    \/ DwellSleep
    \/ FinishCapture
    \/ SaveCapture
    \/ StopCapture
    \/ CaptureTick

----------------------------------------------------------------------------
(* RFRepeat (rf_repeat.py) *)

\* str.strip() removes these from both ends of a line.
Whitespace == {" ", "\n"}

\* The lines a text file yields when iterated, each with its line end.
RECURSIVE LinesOf(_)
LinesOf(text) ==
    IF text = <<>> THEN <<>>
    ELSE IF \E k \in 1..Len(text) : text[k] = "\n"
         THEN LET k == CHOOSE i \in 1..Len(text) :
                          /\ text[i] = "\n"
                          /\ \A j \in 1..(i - 1) : text[j] # "\n"
              IN  <<SubSeq(text, 1, k)>>
                      \o LinesOf(SubSeq(text, k + 1, Len(text)))
         ELSE <<text>>

\* str.strip(), line 64.
RECURSIVE strip(_)
strip(line) ==
    IF line = <<>> THEN line
    ELSE IF Head(line) \in Whitespace THEN strip(Tail(line))
    ELSE IF line[Len(line)] \in Whitespace
         THEN strip(SubSeq(line, 1, Len(line) - 1))
    ELSE line

\* str.split(","), line 64: an empty line has one empty field.
RECURSIVE split(_)
split(line) ==
    IF \E k \in 1..Len(line) : line[k] = ","
    THEN LET k == CHOOSE i \in 1..Len(line) :
                     /\ line[i] = ","
                     /\ \A j \in 1..(i - 1) : line[j] # ","
         IN  <<SubSeq(line, 1, k - 1)>>
                 \o split(SubSeq(line, k + 1, Len(line)))
    ELSE <<line>>

UpperHexDigits == <<"0", "1", "2", "3", "4", "5", "6", "7", "8", "9",
                    "A", "B", "C", "D", "E", "F">>

\* The value of a hexadecimal digit of either case, -1 for any other character.
HexValue(c) ==
    IF \E k \in 1..16 : HexDigits[k] = c
    THEN (CHOOSE k \in 1..16 : HexDigits[k] = c) - 1
    ELSE IF \E k \in 1..16 : UpperHexDigits[k] = c
    THEN (CHOOSE k \in 1..16 : UpperHexDigits[k] = c) - 1
    ELSE -1

\* bytes.fromhex(), line 66: two digits per byte, blanks between bytes are
\* skipped, anything else raises ValueError.
RECURSIVE FromHex(_, _)
FromHex(text, bytes) ==
    IF text = <<>> THEN [ok |-> TRUE, bytes |-> bytes]
    ELSE IF Head(text) = " " THEN FromHex(Tail(text), bytes)
    ELSE IF Len(text) < 2 \/ HexValue(text[1]) < 0 \/ HexValue(text[2]) < 0
         THEN [ok |-> FALSE, bytes |-> <<>>]
    ELSE FromHex(SubSeq(text, 3, Len(text)),
                 Append(bytes, 16 * HexValue(text[1]) + HexValue(text[2])))

fromhex(text) == FromHex(text, <<>>)

\* The loop of lines 63-67 over the remaining lines: a line of fewer than
\* four fields is passed over, a ValueError of fromhex ends the loop.
RECURSIVE ParseLines(_, _)
ParseLines(lines, parsed) ==
    IF lines = <<>> THEN [raised |-> FALSE, packets |-> parsed]
    ELSE LET parts == split(strip(Head(lines)))
         IN  IF Len(parts) >= 4
             THEN IF fromhex(parts[4]).ok
                  THEN ParseLines(Tail(lines),
                           Append(parsed, [data |-> fromhex(parts[4]).bytes]))
                  ELSE [raised |-> TRUE, packets |-> parsed]
             ELSE ParseLines(Tail(lines), parsed)

\* A setup that goes on whatever begin() returns.
BeginUnchecked(ok) == TRUE

\* setup, lines 17-18: a failed begin() raises RuntimeError.
BeginChecked(ok) == ok

\* A counter that counts every attempt.
CountedAlways(count, sent) == count + 1

\* repeat_sequence, lines 51-52.
Counted(count, sent) == IF sent THEN count + 1 ELSE count

\* The entries of rep_log.
WriteCall(data, ok) == [op |-> "write", data |-> data, ok |-> ok]
SleepCall == [op |-> "sleep"]

RepeatIdle ==
    /\ rep_pc = "init"
    /\ rep_radio = RadioOff
    /\ rep_channel = 76
    /\ is_repeating = FALSE
    /\ rep_packets = <<>>
    /\ rep_index = 0
    /\ success_count = 0
    /\ rep_log = <<>>
    /\ rep_stopped = FALSE
    /\ rep_result = None
    /\ file_read = NoFile

\* setup(), lines 15-30.
RepeatSetup ==
    /\ rep_pc = "init"
    /\ \E ok \in BOOLEAN :
         IF BeginChecked(ok)
         THEN /\ rep_radio' = [begun |-> ok, channel |-> rep_channel,
                               listening |-> FALSE]
              /\ rep_pc' = "ready"
         ELSE /\ rep_radio' = rep_radio
              /\ rep_pc' = "failed"
    /\ UNCHANGED <<rep_channel, is_repeating, rep_packets, rep_index,
                   success_count, rep_log, rep_stopped, rep_result, file_read>>
    /\ UNCHANGED outside_replay

\* repeat_from_file, lines 58-71: the file is missing, a line raises, or the
\* packets are loaded.
LoadFile ==
    /\ rep_pc = "ready"
    /\ IF saved = NoFile
       THEN /\ rep_result' = 0
            /\ rep_pc' = "returned"
            /\ UNCHANGED <<rep_packets, file_read>>
       ELSE /\ file_read' = saved
            /\ rep_packets' = ParseLines(LinesOf(saved), <<>>).packets
            /\ rep_pc' = IF ParseLines(LinesOf(saved), <<>>).raised
                         THEN "raised" ELSE "loaded"
            /\ UNCHANGED rep_result
    /\ UNCHANGED <<rep_radio, rep_channel, is_repeating, rep_index,
                   success_count, rep_log, rep_stopped>>
    /\ UNCHANGED outside_replay

\* repeat_from_file, line 73, and repeat_sequence, lines 44-45.
StartSequence ==
    /\ rep_pc = "loaded"
    /\ is_repeating' = TRUE
    /\ success_count' = 0
    /\ rep_index' = 1
    /\ rep_stopped' = FALSE
    /\ rep_pc' = "for"
    /\ UNCHANGED <<rep_radio, rep_channel, rep_packets, rep_log, rep_result,
                   file_read>>
    /\ UNCHANGED outside_replay

\* A loop that goes through the whole list whatever is_repeating says.
ForGuardIgnoringStop ==
    /\ rep_pc = "for"
    /\ rep_pc' = IF rep_index > Len(rep_packets) THEN "finish" ELSE "send"
    /\ UNCHANGED replay_vars_but_pc
    /\ UNCHANGED outside_replay

\* repeat_sequence, lines 47-49.
ForGuard ==
    /\ rep_pc = "for"
    /\ rep_pc' = IF rep_index > Len(rep_packets) \/ ~is_repeating
                 THEN "finish" ELSE "send"
    /\ UNCHANGED replay_vars_but_pc
    /\ UNCHANGED outside_replay

\* repeat_packet, lines 34-40: radio.write succeeds, or it fails and the loop
\* of repeat_sequence takes the next packet.
SendPacket ==
    /\ rep_pc = "send"
    /\ \E ok \in BOOLEAN :
         /\ rep_log' = Append(rep_log,
                              WriteCall(rep_packets[rep_index].data, ok))
         /\ IF ok
            THEN /\ rep_pc' = "delay"
                 /\ UNCHANGED <<rep_index, success_count>>
            ELSE /\ rep_pc' = "for"
                 /\ rep_index' = rep_index + 1
                 /\ success_count' = Counted(success_count, FALSE)
    /\ UNCHANGED <<rep_radio, rep_channel, is_repeating, rep_packets,
                   rep_stopped, rep_result, file_read>>
    /\ UNCHANGED outside_replay

\* repeat_packet, lines 36-37, and repeat_sequence, lines 51-52.
Delay ==
    /\ rep_pc = "delay"
    /\ rep_log' = Append(rep_log, SleepCall)
    /\ success_count' = Counted(success_count, TRUE)
    /\ rep_index' = rep_index + 1
    /\ rep_pc' = "for"
    /\ UNCHANGED <<rep_radio, rep_channel, is_repeating, rep_packets,
                   rep_stopped, rep_result, file_read>>
    /\ UNCHANGED outside_replay

\* repeat_sequence, lines 54-56.
FinishSequence ==
    /\ rep_pc = "finish"
    /\ is_repeating' = FALSE
    /\ rep_result' = success_count
    /\ rep_pc' = "returned"
    /\ UNCHANGED <<rep_radio, rep_channel, rep_packets, rep_index,
                   success_count, rep_log, rep_stopped, file_read>>
    /\ UNCHANGED outside_replay

Repeating == rep_pc \in {"for", "send", "delay", "finish"}

\* stop_repeat, lines 75-77, called while the sequence is replayed.
StopRepeat ==
    /\ Repeating
    /\ is_repeating
    /\ is_repeating' = FALSE
    /\ rep_stopped' = TRUE
    /\ UNCHANGED <<rep_pc, rep_radio, rep_channel, rep_packets, rep_index,
                   success_count, rep_log, rep_result, file_read>>
    /\ UNCHANGED outside_replay

\* Payloads a capture may have logged, and the logs of one channel.
LogPayloads == {<<0>>, <<171>>, <<10, 255>>}
CaptureLogs ==
    {[k \in 1..Len(f) |-> CapturedPacket(k - 1, f[k], 76)] :
        f \in UNION {[1..n -> LogPayloads] : n \in 0..MaxLogLen}}

\* Lines of a file written by hand: two well-formed records, one of them
\* with upper-case digits and a fifth field, a record of two fields, and a
\* record whose payload is not hexadecimal.
GoodLine   == <<"0", ".", "5", ",", "7", "6", ",", "1", ",", "a", "b", "\n">>
LongLine   == <<"1", ",", "7", ",", "2", ",", "0", "A", "f", "f", ",", "x", "\n">>
ShortLine  == <<"7", "6", ",", "a", "b", "\n">>
NonHexLine == <<"0", ".", "5", ",", "7", "6", ",", "1", ",", "z", "z", "\n">>
FileLines  == {GoodLine, LongLine, ShortLine, NonHexLine}

RECURSIVE Joined(_)
Joined(lines) ==
    IF lines = <<>> THEN <<>> ELSE Head(lines) \o Joined(Tail(lines))

HandWrittenFiles ==
    {Joined(f) : f \in UNION {[1..n -> FileLines] : n \in 0..MaxFileLines}}

ReplayNext ==
    \/ SaveCapture
    \/ RepeatSetup
    \/ LoadFile
    \/ StartSequence
    \/ ForGuard
    \/ SendPacket
    \/ Delay
    \/ FinishSequence
    \/ StopRepeat

----------------------------------------------------------------------------
(* RFSniffer and main (main.py) *)

Modes == {"capture", "scan", "repeat", "live"}

\* No radio has been powered down yet.
NoRelease == [capture |-> 0, repeat |-> 0]

\* cleanup, lines 127-130, on the count of the powerDown calls of each radio.
Released(r) == [capture |-> r.capture + 1, repeat |-> r.repeat + 1]

\* The data of live_repeat_mode when no packet is in hand.
NoData == <<>>

\* The values of --channel tried: argparse (main.py 145-147) takes any int.
OperatorChannels == CaptureChannels \cup {126}

ControllerIdle ==
    /\ ctl_pc = "main"
    /\ mode \in Modes
    /\ running = TRUE
    /\ arg_file \in BOOLEAN
    /\ arg_channel \in OperatorChannels
    /\ releases = NoRelease
    /\ signals = 0
    /\ live_start = 0
    /\ live_data = NoData
    /\ live_log = <<>>
    /\ exit_cause = "none"
    /\ powerdowns = <<>>

\* main, lines 181-197: the mode function is entered and stores the channel,
\* or repeat mode without a file leaves with sys.exit(1).
Dispatch ==
    /\ ctl_pc = "main"
    /\ powerdowns' = powerdowns
    /\ ctl_pc' = CASE mode \in {"capture", "scan"} -> "capture_mode"
                   [] mode = "repeat" ->
                          IF arg_file THEN "repeat_mode" ELSE "finally"
                   [] mode = "live" -> "live_mode"
    /\ channel' = IF mode = "live" \/ (mode = "capture" /\ ~scan_all)
                  THEN arg_channel ELSE channel
    /\ rep_channel' = IF mode = "live" \/ (mode = "repeat" /\ arg_file)
                      THEN arg_channel ELSE rep_channel
    /\ exit_cause' = IF mode = "repeat" /\ ~arg_file
                     THEN "SystemExit" ELSE exit_cause
    /\ UNCHANGED <<mode, running, arg_file, arg_channel, releases, signals,
                   live_start, live_data, live_log>>
    /\ UNCHANGED <<cap_pc, cap_radio, captured_data, is_capturing,
                   channel_activity, cap_duration, scan_all, cap_start_time,
                   channel_start, sweep_channel, saved, visited, stop_mark>>
    /\ UNCHANGED <<rep_pc, rep_radio, is_repeating, rep_packets, rep_index,
                   success_count, rep_log, rep_stopped, rep_result, file_read>>
    /\ UNCHANGED <<continuous_vars, sweep_vars, search_vars, most_active, now>>

\* capture_mode, lines 61-67: the calls into the capture session.
CaptureModeStep ==
    /\ ctl_pc = "capture_mode"
    /\ \/ CaptureSetup
       \/ StartCapture
       \/ SingleGuard
       \/ SinglePoll
       \/ SingleSleep
       \/ SweepGuard
       \/ SweepFor
       \/ DwellGuard
       \/ DwellPoll
       \/ DwellSleep
       \/ FinishCapture
       \/ SaveCapture
       \/ CaptureTick

\* capture_mode, lines 68-76: the report after the save.
CaptureModeEnd ==
    /\ ctl_pc = "capture_mode"
    /\ cap_pc = "saved"
    /\ most_active' = IF scan_all
                      THEN get_most_active_channel(channel_activity)
                      ELSE most_active
    /\ ctl_pc' = "finally"
    /\ UNCHANGED <<mode, running, arg_file, arg_channel, releases, signals,
                   live_start, live_data, live_log, exit_cause, powerdowns>>
    /\ UNCHANGED <<continuous_vars, sweep_vars, search_vars, capture_vars, replay_vars, now>>

\* repeat_mode, lines 81-90: the calls into the replay session.
RepeatModeStep ==
    /\ ctl_pc = "repeat_mode"
    /\ \/ RepeatSetup
       \/ LoadFile
       \/ StartSequence
       \/ ForGuard
       \/ SendPacket
       \/ Delay
       \/ FinishSequence

\* repeat_mode, lines 91-93.
RepeatModeEnd ==
    /\ ctl_pc = "repeat_mode"
    /\ rep_pc = "returned"
    /\ ctl_pc' = "finally"
    /\ UNCHANGED <<mode, running, arg_file, arg_channel, releases, signals,
                   live_start, live_data, live_log, exit_cause, powerdowns>>
    /\ UNCHANGED <<continuous_vars, sweep_vars, search_vars, capture_vars, most_active, replay_vars, now>>

\* live_repeat_mode, lines 100-101: capture.setup() and then repeat.setup().
LiveSetupStep ==
    /\ ctl_pc = "live_mode"
    /\ \/ CaptureSetup
       \/ cap_pc = "ready" /\ RepeatSetup

\* An exception of setup() or of repeat_from_file leaves the mode function
\* and reaches the finally clause of main.
ModeRaises ==
    /\ \/ ctl_pc \in {"capture_mode", "live_mode"} /\ cap_pc = "failed"
       \/ ctl_pc \in {"repeat_mode", "live_mode"} /\ rep_pc = "failed"
       \/ ctl_pc = "repeat_mode" /\ rep_pc = "raised"
    /\ ctl_pc' = "finally"
    /\ exit_cause' = IF rep_pc = "raised" THEN "ValueError" ELSE "RuntimeError"
    /\ powerdowns' = powerdowns
    /\ UNCHANGED <<mode, running, arg_file, arg_channel, releases, signals,
                   live_start, live_data, live_log>>
    /\ UNCHANGED <<continuous_vars, sweep_vars, search_vars, capture_vars, most_active, replay_vars, now>>

\* live_repeat_mode, line 113.
LiveStart ==
    /\ ctl_pc = "live_mode"
    /\ cap_pc = "ready"
    /\ rep_pc = "ready"
    /\ live_start' = now
    /\ ctl_pc' = "live_while"
    /\ UNCHANGED <<mode, running, arg_file, arg_channel, releases, signals,
                   live_data, live_log, exit_cause, powerdowns>>
    /\ UNCHANGED <<continuous_vars, sweep_vars, search_vars, capture_vars, most_active, replay_vars, now>>

\* live_repeat_mode, line 115.
LiveGuard ==
    /\ ctl_pc = "live_while"
    /\ ctl_pc' = IF running /\ (now - live_start) < cap_duration
                 THEN "live_poll" ELSE "finally"
    /\ UNCHANGED <<mode, running, arg_file, arg_channel, releases, signals,
                   live_start, live_data, live_log, exit_cause, powerdowns>>
    /\ UNCHANGED <<continuous_vars, sweep_vars, search_vars, capture_vars, most_active, replay_vars, now>>

\* A loop that reads a payload and goes back to sleep without repeating it.
AfterReadDropped(data) == "live_sleep"

\* live_repeat_mode, lines 118-123: a payload of positive length is repeated.
AfterRead(data) == IF Len(data) > 0 THEN "live_send" ELSE "live_sleep"

\* live_repeat_mode, lines 116-120: nothing available, an empty payload, or a
\* payload to repeat.
LivePoll ==
    /\ ctl_pc = "live_poll"
    /\ \/ /\ live_data' = NoData
          /\ live_log' = live_log
          /\ ctl_pc' = "live_sleep"
       \/ \E data \in Payloads :
            /\ live_data' = data
            /\ live_log' = IF Len(data) > 0 THEN Append(live_log, data)
                            ELSE live_log
            /\ ctl_pc' = AfterRead(data)
    /\ UNCHANGED <<mode, running, arg_file, arg_channel, releases, signals,
                   live_start, exit_cause, powerdowns>>
    /\ UNCHANGED <<continuous_vars, sweep_vars, search_vars, capture_vars, most_active, replay_vars, now>>

\* live_repeat_mode, line 123, and repeat_packet, lines 34-40.
LiveSend ==
    /\ ctl_pc = "live_send"
    /\ \E ok \in BOOLEAN :
         /\ rep_log' = Append(rep_log, WriteCall(live_data, ok))
         /\ ctl_pc' = IF ok THEN "live_delay" ELSE "live_sleep"
    /\ live_data' = NoData
    /\ UNCHANGED <<mode, running, arg_file, arg_channel, releases, signals,
                   live_start, live_log, exit_cause, powerdowns>>
    /\ UNCHANGED <<rep_pc, rep_radio, rep_channel, is_repeating, rep_packets,
                   rep_index, success_count, rep_stopped, rep_result,
                   file_read>>
    /\ UNCHANGED <<continuous_vars, sweep_vars, search_vars, capture_vars, most_active, now>>

\* repeat_packet, lines 36-37, called from live_repeat_mode.
LiveDelay ==
    /\ ctl_pc = "live_delay"
    /\ rep_log' = Append(rep_log, SleepCall)
    /\ ctl_pc' = "live_sleep"
    /\ UNCHANGED <<mode, running, arg_file, arg_channel, releases, signals,
                   live_start, live_data, live_log, exit_cause, powerdowns>>
    /\ UNCHANGED <<rep_pc, rep_radio, rep_channel, is_repeating, rep_packets,
                   rep_index, success_count, rep_stopped, rep_result,
                   file_read>>
    /\ UNCHANGED <<continuous_vars, sweep_vars, search_vars, capture_vars, most_active, now>>

\* live_repeat_mode, line 125.
LiveSleep ==
    /\ ctl_pc = "live_sleep"
    /\ now' = now + 1
    /\ ctl_pc' = "live_while"
    /\ UNCHANGED <<mode, running, arg_file, arg_channel, releases, signals,
                   live_start, live_data, live_log, exit_cause, powerdowns>>
    /\ UNCHANGED <<continuous_vars, sweep_vars, search_vars, capture_vars, most_active, replay_vars>>

\* RFSniffer.cleanup, lines 127-130, with RFCapture.cleanup (rf_capture.py
\* 229-233) and RFRepeat.cleanup (rf_repeat.py 79-82): the calls in order.
cleanup_calls == <<"capture.stopListening", "capture.powerDown",
                   "repeat.powerDown">>

\* Variant: the radios are released first and the sessions stopped after.
signal_handler_calls_cleanup_first ==
    cleanup_calls \o <<"stop_capture", "stop_repeat">>

\* signal_handler, lines 30-32: the calls in order.
signal_handler_calls == <<"stop_capture", "stop_repeat">> \o cleanup_calls

\* The flags a teardown works on, as the controller holds them.
Flags == [capturing |-> is_capturing, repeating |-> is_repeating,
          listening |-> cap_radio.listening, log |-> <<>>]

\* One call of a teardown: the stop calls clear a flag, stopListening leaves
\* listening mode, powerDown is noted with the flags it finds.
AfterCall(f, call, n) ==
    CASE call = "stop_capture" -> [f EXCEPT !.capturing = FALSE]
      [] call = "stop_repeat" -> [f EXCEPT !.repeating = FALSE]
      [] call = "capture.stopListening" -> [f EXCEPT !.listening = FALSE]
      [] call = "capture.powerDown" ->
             [f EXCEPT !.log = Append(@, [radio |-> "capture", signals |-> n,
                                          capturing |-> f.capturing,
                                          repeating |-> f.repeating,
                                          listening |-> f.listening])]
      [] call = "repeat.powerDown" ->
             [f EXCEPT !.log = Append(@, [radio |-> "repeat", signals |-> n,
                                          capturing |-> f.capturing,
                                          repeating |-> f.repeating,
                                          listening |-> f.listening])]

RECURSIVE AfterCalls(_, _, _)
AfterCalls(f, cs, n) ==
    IF cs = <<>> THEN f ELSE AfterCalls(AfterCall(f, Head(cs), n), Tail(cs), n)

\* The powerDown calls of one teardown, run after n signals.
Teardown(n, cs) == AfterCalls(Flags, cs, n).log

\* signal_handler, lines 26-33, run between two steps of the main thread:
\* both sessions are told to stop, both radios are cleaned up, and sys.exit(0)
\* raises SystemExit where the main thread stands.  Inside the try statement
\* of main that leads to its finally clause; inside the finally clause it
\* ends the run.
SignalHandler ==
    /\ ctl_pc # "exited"
    /\ signals < MaxSignals
    /\ signals' = signals + 1
    /\ running' = FALSE
    /\ is_capturing' = FALSE
    /\ stop_mark' = IF Capturing /\ is_capturing
                    THEN [log |-> captured_data, polls |-> 0] ELSE stop_mark
    /\ is_repeating' = FALSE
    /\ rep_stopped' = IF Repeating /\ is_repeating THEN TRUE ELSE rep_stopped
    /\ cap_radio' = [cap_radio EXCEPT !.listening = FALSE]
    /\ releases' = Released(releases)
    /\ ctl_pc' = IF ctl_pc = "finally" THEN "exited" ELSE "finally"
    /\ exit_cause' = "SystemExit"
    /\ powerdowns' = powerdowns \o Teardown(signals + 1, signal_handler_calls)
    /\ UNCHANGED <<mode, arg_file, arg_channel, live_start, live_data,
                   live_log>>
    /\ UNCHANGED <<cap_pc, channel, captured_data, channel_activity,
                   cap_duration, scan_all, cap_start_time, channel_start,
                   sweep_channel, saved, visited>>
    /\ UNCHANGED <<rep_pc, rep_radio, rep_channel, rep_packets, rep_index,
                   success_count, rep_log, rep_result, file_read>>
    /\ UNCHANGED <<continuous_vars, sweep_vars, search_vars, most_active, now>>

\* main, lines 201-202: the finally clause calls cleanup.
Finally ==
    /\ ctl_pc = "finally"
    /\ cap_radio' = [cap_radio EXCEPT !.listening = FALSE]
    /\ releases' = Released(releases)
    /\ ctl_pc' = "exited"
    /\ powerdowns' = powerdowns \o Teardown(signals, cleanup_calls)
    /\ UNCHANGED <<mode, running, arg_file, arg_channel, signals, live_start,
                   live_data, live_log, exit_cause>>
    /\ UNCHANGED <<cap_pc, channel, captured_data, is_capturing,
                   channel_activity, cap_duration, scan_all, cap_start_time,
                   channel_start, sweep_channel, saved, visited, stop_mark>>
    /\ UNCHANGED <<continuous_vars, sweep_vars, search_vars, most_active, replay_vars, now>>

ControllerNext ==
    \/ Dispatch
    \/ CaptureModeStep
    \/ CaptureModeEnd
    \/ RepeatModeStep
    \/ RepeatModeEnd
    \/ LiveSetupStep
    \/ ModeRaises
    \/ LiveStart
    \/ LiveGuard
    \/ LivePoll
    \/ LiveSend
    \/ LiveDelay
    \/ LiveSleep
    \/ SignalHandler
    \/ Finally

----------------------------------------------------------------------------
(* The spectrum sweep: scanner.scan_spectrum, scanner_cpp.main and
   scanner_rich.scan_spectrum *)

Sweepers == {"scanner", "scanner_cpp", "scanner_rich"}

\* The largest count that is printed as it is.
DisplayClamp == 15

\* [0] * num_channels
Zeros == [k \in 1..NumSpectrumChannels |-> 0]

\* Nothing has been printed for any channel; nothing was handed back.
Blank == [k \in 1..NumSpectrumChannels |-> " "]
NoResult == <<>>

SweepRadioOff == [begun |-> FALSE, channel |-> 0, listening |-> FALSE,
                  power |-> FALSE]

\* The operands of the detection, in the order the tool evaluates them:
\* scanner.py line 73; scanner_cpp.py lines 148 and 152 (scanner_rich.py 150
\* and 154).
Operands(tool) ==
    IF tool = "scanner" THEN <<"rpd", "available", "test_rpd">>
    ELSE <<"test_rpd", "test_rpd", "available">>

\* "a or b or c" stops at its first true operand: the number of operands
\* evaluated.
ShortCircuit(rs) == IF rs[1] THEN 1 ELSE IF rs[2] THEN 2 ELSE 3

\* A detection that looks at its first operand only.
FoundSignalFirstOnly(rs) == rs[1]

\* The value of "a or b or c".
FoundSignal(rs) == rs[1] \/ rs[2] \/ rs[3]

\* The calls made for operands from..ShortCircuit(rs), with the mode the radio
\* was in.
Evaluated(tool, rs, from, listening) ==
    [k \in 1..(ShortCircuit(rs) - from + 1) |->
        [call |-> Operands(tool)[k + from - 1], result |-> rs[k + from - 1],
         listening |-> listening]]

\* A counter that starts again from zero after num_reps hits.
IncrementedWrapping(vals, ch) == [vals EXCEPT ![ch + 1] = (@ + 1) % NumReps]

\* A counter that stops at the largest printable count.
IncrementedClamped(vals, ch) ==
    [vals EXCEPT ![ch + 1] = IF @ + 1 > DisplayClamp THEN DisplayClamp ELSE @ + 1]

\* signals[channel] += 1 / values[i] += 1 / update_channel
Incremented(vals, ch) == [vals EXCEPT ![ch + 1] = @ + 1]

\* ("%X" % min(15, sig_cnt)) if sig_cnt else "-"
Digit(count) ==
    IF count # 0
    THEN UpperHexDigits[(IF count < DisplayClamp THEN count ELSE DisplayClamp) + 1]
    ELSE "-"

\* create_spectrum_line
SpectrumLine(vals) == [k \in 1..NumSpectrumChannels |-> Digit(vals[k])]

\* The state before main of the chosen tool runs.
SweepIdle ==
    /\ sw_pc = "main"
    /\ sw_radio = SweepRadioOff
    /\ start_timer = 0
    /\ values = Zeros
    /\ rep_counter = 0
    /\ sw_channel = 0
    /\ found_signal = FALSE
    /\ sw_calls = <<>>
    /\ shown = Blank
    /\ sw_result = NoResult
    /\ overrun = 0

SweepFrame == <<sweeper, sw_duration>>

\* main: radio.begin() (scanner.py 228-230, scanner_cpp.py 62-64,
\* scanner_rich.py 203-205); a radio that does not answer ends the run.
SweepBegin ==
    /\ sw_pc = "main"
    /\ \E ok \in BOOLEAN :
         IF ok
         THEN /\ sw_radio' = [sw_radio EXCEPT !.begun = TRUE, !.power = TRUE]
              /\ sw_pc' = "configured"
         ELSE /\ sw_radio' = sw_radio
              /\ sw_pc' = "failed"
    /\ UNCHANGED <<start_timer, values, rep_counter, sw_channel, found_signal,
                   sw_calls, shown, sw_result, overrun, SweepFrame, now>>
    /\ UNCHANGED outside_sweep

\* The configuration and the locals set before the loop: scanner.py 43-64,
\* scanner_cpp.py 70-130 (with listen = True, listen = False, flush_rx at
\* 118-120), scanner_rich.py 82-133.
SweepStart ==
    /\ sw_pc = "configured"
    /\ values' = Zeros
    /\ start_timer' = IF sweeper = "scanner" THEN now ELSE start_timer
    /\ rep_counter' = 0
    /\ sw_radio' = [sw_radio EXCEPT !.listening = FALSE]
    /\ sw_pc' = IF sweeper = "scanner" THEN "while" ELSE "reset"
    /\ UNCHANGED <<sw_channel, found_signal, sw_calls, shown, sw_result,
                   overrun, SweepFrame, now>>
    /\ UNCHANGED outside_sweep

\* scanner.py line 66, and line 94 with main line 285 when the time is up.
DurationGuard ==
    /\ sw_pc = "while"
    /\ IF now - start_timer < sw_duration
       THEN /\ sw_channel' = 0
            /\ sw_pc' = "for"
            /\ sw_result' = sw_result
       ELSE /\ sw_result' = values
            /\ sw_pc' = "returned"
            /\ sw_channel' = sw_channel
    /\ UNCHANGED <<sw_radio, start_timer, values, rep_counter, found_signal,
                   sw_calls, shown, overrun, SweepFrame, now>>
    /\ UNCHANGED outside_sweep

\* The head of the forever loop: scanner_cpp.py 134-139, scanner_rich.py
\* 137-139 with reset_values (64-67).
ResetValues ==
    /\ sw_pc = "reset"
    /\ values' = Zeros
    /\ rep_counter' = IF sweeper = "scanner_cpp" THEN NumReps ELSE 0
    /\ sw_pc' = "rep"
    /\ UNCHANGED <<sw_radio, start_timer, sw_channel, found_signal, sw_calls,
                   shown, sw_result, overrun, SweepFrame, now>>
    /\ UNCHANGED outside_sweep

\* scanner_cpp.py line 140 (and 165 when the batch is over); scanner_rich.py
\* line 141 with is_rep_complete (73-75), and 169-186 when the batch is over.
RepGuard ==
    /\ sw_pc = "rep"
    /\ LET more == IF sweeper = "scanner_cpp" THEN rep_counter > 0
                   ELSE ~(rep_counter >= NumReps)
       IN  /\ sw_pc' = IF more THEN "for" ELSE "reset"
           /\ sw_channel' = IF more THEN 0 ELSE sw_channel
    /\ UNCHANGED <<sw_radio, start_timer, values, rep_counter, found_signal,
                   sw_calls, shown, sw_result, overrun, SweepFrame, now>>
    /\ UNCHANGED outside_sweep

\* The next channel of the pass is selected: scanner.py 67-68, scanner_cpp.py
\* 141-143, scanner_rich.py 143-145.
SelectChannel ==
    /\ sw_pc = "for"
    /\ sw_channel < NumSpectrumChannels
    /\ sw_radio' = [sw_radio EXCEPT !.channel = sw_channel]
    /\ sw_calls' = <<>>
    /\ overrun' = IF sweeper = "scanner" /\ ~(now - start_timer < sw_duration)
                  THEN overrun + 1 ELSE overrun
    /\ sw_pc' = "listen"
    /\ UNCHANGED <<start_timer, values, rep_counter, sw_channel, found_signal,
                   shown, sw_result, SweepFrame, now>>
    /\ UNCHANGED outside_sweep

\* radio.listen = True: scanner.py 69, scanner_cpp.py 146, scanner_rich.py 148.
StartListen ==
    /\ sw_pc = "listen"
    /\ sw_radio' = [sw_radio EXCEPT !.listening = TRUE]
    /\ sw_pc' = "sleep"
    /\ UNCHANGED <<start_timer, values, rep_counter, sw_channel, found_signal,
                   sw_calls, shown, sw_result, overrun, SweepFrame, now>>
    /\ UNCHANGED outside_sweep

\* time.sleep(0.00013): scanner.py 70, scanner_cpp.py 147, scanner_rich.py
\* 149.  One dwell time passes; only scanner.py reads the clock.
DwellTime ==
    /\ sw_pc = "sleep"
    /\ now' = IF sweeper = "scanner" THEN now + 1 ELSE now
    /\ sw_pc' = "sample"
    /\ UNCHANGED <<sw_radio, start_timer, values, rep_counter, sw_channel,
                   found_signal, sw_calls, shown, sw_result, overrun,
                   SweepFrame>>
    /\ UNCHANGED outside_sweep

\* found_signal is assigned: scanner.py line 73 evaluates the whole
\* disjunction, scanner_cpp.py line 148 and scanner_rich.py line 150 its first
\* operand.
Sample ==
    /\ sw_pc = "sample"
    /\ \E rs \in [1..3 -> BOOLEAN] :
         IF sweeper = "scanner"
         THEN /\ found_signal' = FoundSignal(rs)
              /\ sw_calls' = Evaluated(sweeper, rs, 1, sw_radio.listening)
         ELSE /\ rs[2] = FALSE /\ rs[3] = FALSE
              /\ found_signal' = rs[1]
              /\ sw_calls' = <<[call |-> Operands(sweeper)[1],
                                result |-> rs[1],
                                listening |-> sw_radio.listening]>>
    /\ sw_pc' = "unlisten"
    /\ UNCHANGED <<sw_radio, start_timer, values, rep_counter, sw_channel,
                   shown, sw_result, overrun, SweepFrame, now>>
    /\ UNCHANGED outside_sweep

\* radio.listen = False: scanner.py 75, scanner_cpp.py 149, scanner_rich.py 151.
StopListen ==
    /\ sw_pc = "unlisten"
    /\ sw_radio' = [sw_radio EXCEPT !.listening = FALSE]
    /\ sw_pc' = "test"
    /\ UNCHANGED <<start_timer, values, rep_counter, sw_channel, found_signal,
                   sw_calls, shown, sw_result, overrun, SweepFrame, now>>
    /\ UNCHANGED outside_sweep

\* The test and its body: scanner.py 77-79 tests found_signal; scanner_cpp.py
\* 152-154 and scanner_rich.py 154-156 evaluate
\* "found_signal or test_rpd() or available()".
CountHit ==
    /\ sw_pc = "test"
    /\ \E r2, r3 \in BOOLEAN :
         LET rs == <<found_signal, r2, r3>>
             late == IF sweeper = "scanner" \/ found_signal THEN <<>>
                     ELSE Evaluated(sweeper, rs, 2, sw_radio.listening)
             hit == IF sweeper = "scanner" THEN found_signal
                    ELSE FoundSignal(rs)
         IN  /\ (sweeper = "scanner" \/ found_signal) => ~r2 /\ ~r3
             /\ r2 => ~r3
             /\ values' = IF hit THEN Incremented(values, sw_channel)
                          ELSE values
             /\ sw_calls' = IF hit
                            THEN sw_calls \o late \o
                                 <<[call |-> "flush_rx", result |-> FALSE,
                                    listening |-> sw_radio.listening]>>
                            ELSE sw_calls \o late
    /\ sw_pc' = "show"
    /\ UNCHANGED <<sw_radio, start_timer, rep_counter, sw_channel,
                   found_signal, shown, sw_result, overrun, SweepFrame, now>>
    /\ UNCHANGED outside_sweep

\* The channel's character is printed (scanner.py 82-87, scanner_cpp.py
\* 157-161; scanner_rich.py prints nothing per channel) and the for loop
\* advances.
ShowChannel ==
    /\ sw_pc = "show"
    /\ shown' = IF sweeper = "scanner_rich" THEN shown
                ELSE [shown EXCEPT ![sw_channel + 1] =
                                       Digit(values[sw_channel + 1])]
    /\ sw_channel' = sw_channel + 1
    /\ sw_pc' = "for"
    /\ UNCHANGED <<sw_radio, start_timer, values, rep_counter, found_signal,
                   sw_calls, sw_result, overrun, SweepFrame, now>>
    /\ UNCHANGED outside_sweep

\* The end of a pass: scanner.py 89-92, scanner_cpp.py 163-164,
\* scanner_rich.py 158-167 (increment_rep and the new spectrum line).
PassEnd ==
    /\ sw_pc = "for"
    /\ sw_channel = NumSpectrumChannels
    /\ rep_counter' = IF sweeper = "scanner"
                      THEN (IF rep_counter + 1 >= NumReps THEN 0
                            ELSE rep_counter + 1)
                      ELSE IF sweeper = "scanner_cpp" THEN rep_counter - 1
                      ELSE rep_counter + 1
    /\ shown' = IF sweeper = "scanner_rich" THEN SpectrumLine(values)
                ELSE shown
    /\ sw_pc' = IF sweeper = "scanner" THEN "while" ELSE "rep"
    /\ UNCHANGED <<sw_radio, start_timer, values, sw_channel, found_signal,
                   sw_calls, sw_result, overrun, SweepFrame, now>>
    /\ UNCHANGED outside_sweep

\* The sweep is inside its loop.
Sweeping == sw_pc \in {"while", "reset", "rep", "for", "listen", "sleep",
                       "sample", "unlisten", "test", "show"}

\* Ctrl-C while the loop runs.  scanner.py has no handler: the exception
\* leaves scan_spectrum and main (line 285).  scanner_cpp.py 168-171 and
\* scanner_rich.py 186-190 power the radio down and return.
SweepInterrupt ==
    /\ Sweeping
    /\ sw_radio' = IF sweeper = "scanner" THEN sw_radio
                   ELSE [sw_radio EXCEPT !.power = FALSE]
    /\ sw_pc' = "cancelled"
    /\ UNCHANGED <<start_timer, values, rep_counter, sw_channel, found_signal,
                   sw_calls, shown, sw_result, overrun, SweepFrame, now>>
    /\ UNCHANGED outside_sweep

SweepNext ==
    \/ SweepBegin
    \/ SweepStart
    \/ DurationGuard
    \/ ResetValues
    \/ RepGuard
    \/ SelectChannel
    \/ StartListen
    \/ DwellTime
    \/ Sample
    \/ StopListen
    \/ CountHit
    \/ ShowChannel
    \/ PassEnd
    \/ SweepInterrupt

----------------------------------------------------------------------------
(* Specifications *)

\* The controller when a component is driven on its own.
ControllerAtRest ==
    /\ ControllerIdle
    /\ mode = "capture"
    /\ arg_file = FALSE
    /\ arg_channel = 76

\* The spectrum sweep when another component is driven.
SweepAtRest == SweepIdle /\ sweeper = "scanner" /\ sw_duration = 0

\* The adaptive scanner runs; no capture session exists.
SearchInit == SearchIdle /\ ContinuousOff /\ SweepAtRest /\ CaptureIdle /\ now = 0 /\ most_active = NotAsked
               /\ RepeatIdle /\ ControllerAtRest
               /\ channel = 76 /\ cap_duration = 0 /\ scan_all = FALSE
SpecSearch == SearchInit /\ [][SearchNext]_vars

\* A capture session runs; the adaptive scanner is not started.
CaptureInit == CaptureIdle /\ SearchIdle /\ ContinuousOff /\ SweepAtRest /\ now = 0 /\ duration = 0
                /\ most_active = NotAsked /\ RepeatIdle /\ ControllerAtRest
SpecCapture == CaptureInit /\ [][CaptureNext]_vars

\* main, lines 248-252: the search detected activity on its first trial and
\* continuous_scan is called with the detected configuration.
Detection ==
    /\ pc = "done"
    /\ radio = [begun |-> TRUE, channel |-> ConfigAt(StartIt).channel,
                listening |-> FALSE]
    /\ duration \in 1..MaxDuration
    /\ total_combinations = ProductSize(Len(channels))
    /\ progress = 0
    /\ it = StartIt
    /\ config = ConfigAt(StartIt)
    /\ step = 1
    /\ calls = <<>>
    /\ packets = <<>>
    /\ start_time = 0
    /\ \E data \in Payloads \ {<<>>} : ret = <<Packet(0, data)>>
    /\ probe_exit = "expiry"
    /\ probed = <<ConfigAt(StartIt)>>
    /\ result = [config |-> config, packets |-> ret]
    /\ reports = <<"Radio initialized successfully", "DETECTED ACTIVITY!">>

ContinuousInit ==
    /\ Detection
    /\ cs_pc = "start"
    /\ output_file \in BOOLEAN
    /\ all_packets = <<>>
    /\ windows = 0
    /\ cs_result = <<>>
    /\ cs_saved = <<>>
    /\ cs_dropped = <<>>
    /\ SweepAtRest /\ CaptureIdle /\ now = 0 /\ most_active = NotAsked
    /\ RepeatIdle /\ ControllerAtRest
    /\ channel = 76 /\ cap_duration = 0 /\ scan_all = FALSE
SpecContinuous == ContinuousInit /\ [][ContinuousNext]_vars

\* The statements of the capture workflow itself: one thread runs them in
\* order, so the next one is always taken; stop_capture and the passing of
\* time between statements are not under its control.
CaptureProgram ==
    \/ CaptureSetup
    \/ StartCapture
    \/ SingleGuard
    \/ SinglePoll
    \/ SingleSleep
    \/ SweepGuard
    \/ SweepFor
    \/ DwellGuard
    \/ DwellPoll
    \/ DwellSleep
    \/ FinishCapture
    \/ SaveCapture
SpecCaptureFair == CaptureInit /\ [][CaptureNext]_vars /\ WF_vars(CaptureProgram)

\* Logs a sweep may have left: packets tagged with swept channels.
SweepLogs ==
    {[k \in 1..Len(f) |-> CapturedPacket(k - 1, f[k].data, f[k].ch)] :
        f \in UNION {[1..n -> [data : LogPayloads, ch : 0..(NumSweepChannels - 1)]] :
                        n \in 0..MaxLogLen}}

\* The activity table a sweep has built for its log (lines 180-182).
RECURSIVE ActivityFrom(_)
ActivityFrom(log) ==
    IF log = <<>> THEN <<>>
    ELSE RecordActivity(ActivityFrom(SubSeq(log, 1, Len(log) - 1)),
                        log[Len(log)].channel)

\* An RFCapture whose earlier session has returned, before start_capture is
\* called again: the log and the table of that session are still there.
AfterSession ==
    /\ cap_pc = "ready"
    /\ channel = 76
    /\ \/ /\ captured_data \in CaptureLogs
          /\ channel_activity = <<>>
       \/ /\ captured_data \in SweepLogs
          /\ channel_activity = ActivityFrom(captured_data)
    /\ cap_radio = [begun |-> TRUE, channel |-> channel, listening |-> TRUE]
    /\ is_capturing = FALSE
    /\ cap_duration \in 0..MaxCapDuration
    /\ scan_all \in BOOLEAN
    /\ cap_start_time = 0
    /\ channel_start = 0
    /\ sweep_channel = 0
    /\ saved = NoFile
    /\ visited = <<>>
    /\ stop_mark = None

\* A first or a later capture session of one RFCapture, with stop_capture
\* called at any time after setup().
SessionInit ==
    /\ (CaptureIdle \/ AfterSession)
    /\ SearchIdle /\ ContinuousOff /\ SweepAtRest /\ now = 0 /\ duration = 0
    /\ most_active = NotAsked /\ RepeatIdle /\ ControllerAtRest
SessionNext == CaptureNext \/ EarlyStop
SpecSession == SessionInit /\ [][SessionNext]_vars

\* A sweep has returned with some activity table, and capture_mode asks for
\* the most active channel.
MostActiveInit ==
    /\ SearchIdle /\ ContinuousOff /\ SweepAtRest /\ duration = 0 /\ now = 0
    /\ cap_pc = "returned"
    /\ cap_radio = [begun |-> TRUE, channel |-> total_channels - 1,
                    listening |-> TRUE]
    /\ channel = 76
    /\ captured_data = <<>>
    /\ is_capturing = FALSE
    /\ channel_activity \in ActivityTables
    /\ cap_duration = 0
    /\ scan_all = TRUE
    /\ cap_start_time = 0
    /\ channel_start = 0
    /\ sweep_channel = 0
    /\ saved = NoFile
    /\ visited = <<>>
    /\ stop_mark = None
    /\ most_active = NotAsked
    /\ RepeatIdle
    /\ ControllerAtRest
MostActiveNext == AskMostActive
SpecMostActive == MostActiveInit /\ [][MostActiveNext]_vars

\* A replay session runs on a file: one written by hand, or the one that
\* save_capture writes for the log of a capture that has returned.
ReplayInit ==
    /\ SearchIdle /\ ContinuousOff /\ SweepAtRest /\ duration = 0 /\ now = 0
    /\ RepeatIdle
    /\ ControllerAtRest
    /\ most_active = NotAsked
    /\ channel = 76
    /\ is_capturing = FALSE
    /\ channel_activity = <<>>
    /\ cap_duration = 0
    /\ scan_all = FALSE
    /\ cap_start_time = 0
    /\ channel_start = 0
    /\ sweep_channel = 0
    /\ visited = <<>>
    /\ stop_mark = None
    /\ \/ /\ cap_pc = "returned"
          /\ cap_radio = [begun |-> TRUE, channel |-> 76, listening |-> TRUE]
          /\ captured_data \in CaptureLogs
          /\ saved = NoFile
       \/ /\ cap_pc = "init"
          /\ cap_radio = RadioOff
          /\ captured_data = <<>>
          /\ saved \in HandWrittenFiles
SpecReplay == ReplayInit /\ [][ReplayNext]_vars

\* main runs one mode from the command line, and signals may arrive.
ControllerInit ==
    /\ SearchIdle /\ ContinuousOff /\ SweepAtRest /\ duration = 0 /\ now = 0
    /\ ControllerIdle
    /\ RepeatIdle
    /\ most_active = NotAsked
    /\ cap_pc = "init"
    /\ cap_radio = RadioOff
    /\ channel = 76
    /\ captured_data = <<>>
    /\ is_capturing = FALSE
    /\ channel_activity = <<>>
    /\ cap_start_time = 0
    /\ channel_start = 0
    /\ sweep_channel = 0
    /\ visited = <<>>
    /\ stop_mark = None
    /\ scan_all \in IF mode = "scan" THEN {TRUE}
                    ELSE IF mode = "capture" THEN BOOLEAN ELSE {FALSE}
    /\ cap_duration \in IF mode = "repeat" THEN {0} ELSE 0..MaxCapDuration
    /\ saved \in IF mode = "repeat" THEN HandWrittenFiles \cup {NoFile}
                 ELSE {NoFile}
SpecController == ControllerInit /\ [][ControllerNext]_vars

\* One of the three spectrum tools runs; scanner.py for a chosen duration.
SweepFresh ==
    /\ SweepIdle
    /\ sweeper \in Sweepers
    /\ sw_duration \in IF sweeper = "scanner" THEN 1..MaxSweepDuration ELSE {0}
    /\ now = 0

SweepInit ==
    /\ SweepFresh
    /\ SearchIdle /\ ContinuousOff /\ duration = 0
    /\ CaptureIdle /\ channel = 76 /\ cap_duration = 0 /\ scan_all = FALSE
    /\ most_active = NotAsked
    /\ RepeatIdle
    /\ ControllerAtRest
SpecSweep == SweepInit /\ [][SweepNext]_vars

\* scanner.scan_spectrum after LongRunPasses passes with one more pass to
\* go: channels that were hit in all but one pass or in none, the last
\* channel not hit in the pass just finished.
LongRun ==
    /\ sweeper = "scanner"
    /\ sw_pc = "while"
    /\ sw_radio = [begun |-> TRUE, channel |-> NumSpectrumChannels - 1,
                   listening |-> FALSE, power |-> TRUE]
    /\ start_timer = 0
    /\ now = LongRunPasses * NumSpectrumChannels
    /\ sw_duration = now + 1
    /\ values \in [1..NumSpectrumChannels -> {0, LongRunPasses - 1}]
    /\ rep_counter = LongRunPasses % NumReps
    /\ sw_channel = NumSpectrumChannels
    /\ found_signal = FALSE
    /\ sw_calls = Evaluated("scanner", <<FALSE, FALSE, FALSE>>, 1, TRUE)
    /\ shown = SpectrumLine(values)
    /\ sw_result = NoResult
    /\ overrun = 0

\* A spectrum tool starts, or scanner.scan_spectrum has run long.
DisplayInit ==
    /\ (SweepFresh \/ LongRun)
    /\ SearchIdle /\ ContinuousOff /\ duration = 0
    /\ CaptureIdle /\ channel = 76 /\ cap_duration = 0 /\ scan_all = FALSE
    /\ most_active = NotAsked
    /\ RepeatIdle
    /\ ControllerAtRest
SpecDisplay == DisplayInit /\ [][SweepNext]_vars

----------------------------------------------------------------------------
(* Properties of the configuration search and of the probe *)

Range(seq) == {seq[k] : k \in 1..Len(seq)}

\* Every combination of the five lists.
AllConfigs ==
    [rate : Range(data_rates), crc : Range(crc_lengths), pa : Range(power_levels),
     addr_width : Range(address_widths), channel : Range(channels)]

\* The combination at position k of the order rate -> crc -> power -> address
\* width -> channel, channel varying fastest; positions count from 1.
ConfigOfRank(k) ==
    LET n  == k - 1
        n4 == n \div Len(channels)
        n3 == n4 \div Len(address_widths)
        n2 == n3 \div Len(power_levels)
        n1 == n2 \div Len(crc_lengths)
    IN [rate |-> data_rates[n1 + 1],
        crc |-> crc_lengths[(n2 % Len(crc_lengths)) + 1],
        pa |-> power_levels[(n3 % Len(power_levels)) + 1],
        addr_width |-> address_widths[(n4 % Len(address_widths)) + 1],
        channel |-> channels[(n % Len(channels)) + 1]]

\* All combinations in that order.
NestingOrder == [k \in 1..Cardinality(AllConfigs) |-> ConfigOfRank(k)]

Returned == pc = "done"
FoundNothing == Returned /\ result = [config |-> None, packets |-> <<>>]
FoundSomething == Returned /\ result # [config |-> None, packets |-> <<>>]
SwallowedFailure == pc = "check" /\ probe_exit \in {"config_error", "poll_error"}

\* C1: the search probes the combinations in the order rate -> crc -> power ->
\* address width -> channel with the channel varying fastest: the k-th probe is
\* the combination of rank k, so no combination is probed twice; a search that
\* detects nothing has probed every combination, and a search that detects has
\* probed exactly the combinations up to the detecting one.
C1_ProbeOrder ==
    /\ Range(NestingOrder) = AllConfigs
    /\ Len(probed) <= Len(NestingOrder)
    /\ probed = SubSeq(NestingOrder, 1, Len(probed))
    /\ FoundNothing => probed = NestingOrder
    /\ FoundSomething => /\ Len(probed) > 0
                         /\ result.config = NestingOrder[Len(probed)]

\* C1 witness: a detection at a combination that lies beyond the first pass
\* over the channels and the address widths.
C1_Witness ==
    /\ FoundSomething
    /\ Len(probed) > Len(channels) * Len(address_widths)

\* C2: the search ends at the first probe that yields a packet: a probe result
\* with at least one packet is followed by the return of exactly that
\* configuration and exactly those packets, every earlier probe came back
\* empty, and after the return no further probe is made.
C2_ShortCircuit ==
    /\ [](FoundSomething =>
            /\ result.config = config
            /\ result.packets = ret
            /\ Len(result.packets) >= 1
            /\ progress = Len(probed) - 1)
    /\ [][(pc = "check" /\ Len(ret) >= 1 /\ pc' # "interrupted") =>
            /\ pc' = "done"
            /\ result' = [config |-> probed[Len(probed)], packets |-> ret]
            /\ probed' = probed]_vars
    /\ [][Returned => (pc' = "done" /\ probed' = probed /\ calls' = calls
                        /\ radio' = radio /\ result' = result)]_vars

\* C2 witness: the search has returned a detection made of two packets.
C2_Witness == FoundSomething /\ Len(result.packets) = 2 /\ Len(probed) >= 2

\* C3: the search returns (None, []) exactly when every combination was
\* probed and every probe came back empty; it is an ordinary return.
C3_NotFoundIffExhausted ==
    /\ Returned =>
         (FoundNothing <=>
            (Len(probed) = Cardinality(AllConfigs)
               /\ progress = Cardinality(AllConfigs) /\ ret = <<>>))
    /\ (pc = "loop" /\ Len(probed) < Cardinality(AllConfigs)) => ENABLED CallScanConfig
    /\ ~Returned => result = None

\* C3 witness: the search has returned "not found".
C3_Witness == FoundNothing /\ Len(probed) = Cardinality(AllConfigs)

\* C4: the total is computed before the first probe and is the product of the
\* five list sizes (13,500 for the source's 125 channels); a search that ends
\* without a detection has made that many probes and advanced the progress
\* task that many times.
C4_TotalTrialCount ==
    /\ ProductSize(DefaultChannelCount) = 13500
    /\ (InProbe \/ pc \in {"loop", "check", "done"}) =>
         /\ total_combinations = Cardinality(AllConfigs)
         /\ progress <= total_combinations
    /\ FoundNothing => (Len(probed) = total_combinations
                          /\ progress = total_combinations)

\* C4 witness: a search that ended without a detection, all trials counted.
C4_Witness == FoundNothing /\ progress = total_combinations /\ progress > 0

\* C5: the radio is out of listening mode whenever control is outside the
\* probe, on every way out of it: expiry of the duration, an error while the
\* configuration is applied, an error while polling, an operator interrupt.
C5_NotListeningOutsideProbe == ~InProbe => ~radio.listening

SetterOrder == <<"setDataRate", "setCRCLength", "setPALevel", "setAutoAck",
                 "setAddressWidth", "setChannel">>

\* C6: the probe calls the six setters in the order data rate, CRC, power,
\* auto-ack off, address width, channel, with the values of the trial's
\* configuration; startListening is its seventh call; it polls only after
\* that call and while the radio is listening.
C6_ConfigOrder ==
    /\ \A k \in 1..Len(calls) :
         IF calls[k].op = "stopListening"
         THEN k = Len(calls)
         ELSE /\ k <= 6 => calls[k].op = SetterOrder[k]
              /\ k = 7 => calls[k].op = "startListening"
              /\ k > 7 => calls[k].op \in {"available", "read", "sleep"}
    /\ (Len(calls) >= 6 /\ calls[6].op = "setChannel") =>
         /\ calls[1].arg = config.rate
         /\ calls[2].arg = config.crc
         /\ calls[3].arg = config.pa
         /\ calls[4].arg = "False"
         /\ calls[5].arg = config.addr_width
         /\ calls[6].arg = config.channel
         /\ radio.channel = config.channel
    /\ (InProbe /\ radio.listening) =>
         (Len(calls) >= 7 /\ calls[7].op = "startListening" /\ pc # "cfg")
    /\ pc \in {"poll", "sleep"} => radio.listening

\* C6 witness: the probe is polling a second time.
C6_Witness ==
    /\ pc = "poll"
    /\ \E k \in 1..Len(calls) : calls[k].op = "sleep"

\* C7: a failure while the configuration is applied or while polling makes the
\* probe return no packets; the search then advances to the next combination
\* and never returns the failed trial as a detection.
C7_FailureSkipsTrial ==
    /\ [](SwallowedFailure => ret = <<>>)
    /\ [][(SwallowedFailure /\ pc' # "interrupted") =>
            /\ pc' = "loop"
            /\ progress' = progress + 1
            /\ result' = result
            /\ \/ Exhausted(it') /\ Len(probed) = Cardinality(AllConfigs)
               \/ ~Exhausted(it') /\ ConfigAt(it') = NestingOrder[Len(probed) + 1]]_vars
    /\ [](FoundSomething => probe_exit = "expiry")

\* C7 witness: a trial after the first failed while polling, after a read.
C7_Witness ==
    /\ SwallowedFailure
    /\ probe_exit = "poll_error"
    /\ Len(probed) >= 2
    /\ \E k \in 1..Len(calls) : calls[k].op = "read"

StartupReports == {"Radio initialized successfully"}
TrialReports == SelectSeq(reports, LAMBDA r : r \notin StartupReports)

\* C8: when the probe swallows a failure, a report of it has been made: no
\* trial is skipped without a line on the console.
C8_FailureReported == SwallowedFailure => TrialReports # <<>>

\* C9: with duration 0 the probe returns an empty list and performs no poll
\* and no sleep, whatever the radio has available.
C9_ZeroDuration ==
    duration = 0 =>
        /\ \A k \in 1..Len(calls) : calls[k].op \notin {"available", "read", "sleep"}
        /\ pc \notin {"poll", "sleep"}
        /\ pc = "check" => ret = <<>>
        /\ packets = <<>>

\* C9 witness: a probe with duration 0 has run to its normal return.
C9_Witness == duration = 0 /\ pc = "check" /\ probe_exit = "expiry"

----------------------------------------------------------------------------
(* Properties of the capture session *)

\* C10: after a single-channel session the activity count of the session's
\* channel equals the number of packets in the log, and the most active
\* channel is that channel whenever a packet was captured.
C10_SingleChannelActivity ==
    (cap_pc = "returned" /\ ~scan_all) =>
        /\ ActivityOf(channel_activity, channel) = Len(captured_data)
        /\ Len(captured_data) > 0 =>
             /\ channel_activity # <<>>
             /\ get_most_active_channel(channel_activity).channel = channel

\* The number of log entries tagged with channel c.
CountTagged(log, c) == Cardinality({k \in 1..Len(log) : log[k].channel = c})

\* A step of a sweep that appends to the log.
SweepAppends == scan_all /\ Len(captured_data') > Len(captured_data)

\* C11: in a sweep-all session the radio is tuned to the channels round-robin
\* in ascending order from channel 0 to the last channel; every packet is
\* appended with the channel the radio is tuned to at that moment; and at
\* every point the activity count of each channel equals the number of log
\* entries tagged with it, so the counts add up to the length of the log.
C11_SweepTagsAndCounts ==
    /\ [](scan_all =>
            /\ \A k \in 1..Len(visited) : visited[k] = (k - 1) % total_channels
            /\ \A k \in 1..Len(captured_data) :
                    captured_data[k].channel \in 0..(total_channels - 1)
            /\ \A c \in 0..(total_channels - 1) :
                    ActivityOf(channel_activity, c) = CountTagged(captured_data, c)
            /\ \A k \in 1..Len(channel_activity) :
                    channel_activity[k].channel \in 0..(total_channels - 1))
    /\ [][SweepAppends =>
            /\ Len(captured_data') = Len(captured_data) + 1
            /\ SubSeq(captured_data', 1, Len(captured_data)) = captured_data
            /\ captured_data'[Len(captured_data')].channel = cap_radio.channel
            /\ cap_radio.channel = visited[Len(visited)]]_vars

\* A sweep that came round to channel 0 again and logged packets on two
\* channels, two of them on the same one.
C11_Witness ==
    /\ scan_all
    /\ Len(visited) > total_channels
    /\ \E c \in 0..(total_channels - 1) : CountTagged(captured_data, c) >= 2
    /\ \E j, k \in 1..Len(captured_data) :
            captured_data[j].channel # captured_data[k].channel

\* The example table {3: 5, 7: 5, 1: 2}, in insertion order.
TiedTable == <<[channel |-> 3, count |-> 5], [channel |-> 7, count |-> 5],
               [channel |-> 1, count |-> 2]>>

\* C12: the most active channel is the one with the highest count; among
\* channels with equal highest counts it is the one recorded first; it is
\* none when no activity was recorded.  For {3: 5, 7: 5, 1: 2} it is 3.
C12_MostActive ==
    most_active # NotAsked =>
        /\ channel_activity = <<>> <=> most_active = None
        /\ channel_activity # <<>> =>
              \E k \in 1..Len(channel_activity) :
                 /\ most_active = channel_activity[k]
                 /\ \A j \in 1..Len(channel_activity) :
                        channel_activity[j].count <= channel_activity[k].count
                 /\ \A j \in 1..(k - 1) :
                        channel_activity[j].count < channel_activity[k].count
        /\ channel_activity = TiedTable => most_active.channel = 3

\* The example table has been queried.
C12_Witness == channel_activity = TiedTable /\ most_active # NotAsked

\* The number of line ends in a text.
LineEnds(text) == Cardinality({k \in 1..Len(text) : text[k] = "\n"})

\* C15: a capture session stopped with stop_capture while it polls ends
\* within one poll iteration and loses no packet: the log it returns with
\* starts with every packet appended before the stop, in order, and
\* save_capture writes one record for each entry of that log.
C15_StopKeepsLog ==
    stop_mark # None =>
        /\ stop_mark.polls <= 1
        /\ Len(stop_mark.log) <= Len(captured_data)
        /\ SubSeq(captured_data, 1, Len(stop_mark.log)) = stop_mark.log
        /\ Len(captured_data) <= Len(stop_mark.log) + stop_mark.polls
        /\ cap_pc = "saved" => LineEnds(saved) = Len(captured_data)

\* A session stopped after its first packet, between the loop condition and
\* the poll, that logged one more packet and was saved.
C15_Witness ==
    /\ stop_mark # None
    /\ Len(stop_mark.log) >= 1
    /\ stop_mark.polls = 1
    /\ Len(captured_data) = Len(stop_mark.log) + 1
    /\ cap_pc = "saved"

----------------------------------------------------------------------------
(* Properties of the replay session and of the capture file *)

\* The radio.write calls of the replay, in order.
Writes == SelectSeq(rep_log, LAMBDA e : e.op = "write")

\* repeat_sequence has returned to repeat_from_file.
SequenceReturned == rep_pc = "returned" /\ file_read # NoFile

\* C16: absent a stop request, repeat_sequence sends every payload of the
\* list exactly once, in order, whatever the outcome of the earlier sends,
\* and the count it returns is the number of sends that succeeded.
C16_BestEffortReplay ==
    (SequenceReturned /\ ~rep_stopped) =>
        /\ Len(Writes) = Len(rep_packets)
        /\ \A k \in 1..Len(Writes) : Writes[k].data = rep_packets[k].data
        /\ success_count = Cardinality({k \in 1..Len(Writes) : Writes[k].ok})
        /\ rep_result = success_count

\* Three payloads of which two failed: three attempts and a count of 1.
C16_Witness ==
    /\ SequenceReturned /\ ~rep_stopped
    /\ Len(rep_packets) = 3
    /\ Len(Writes) = 3
    /\ Cardinality({k \in 1..3 : ~Writes[k].ok}) = 2
    /\ ~Writes[1].ok
    /\ rep_result = 1

\* C17: loading a file never raises: a line with the wrong number of fields
\* and a line whose payload is not hexadecimal are each skipped, and the
\* remaining records are loaded and replayed.
C17_MalformedLinesSkipped == rep_pc # "raised"

\* C18: the text save_capture writes for a log of N packets is parsed by
\* repeat_from_file into exactly N payloads, equal to the logged ones, in
\* order.
C18_RoundTrip ==
    (cap_pc = "saved" /\ file_read # NoFile) =>
        /\ rep_pc # "raised"
        /\ Len(rep_packets) = Len(captured_data)
        /\ \A k \in 1..Len(rep_packets) :
                rep_packets[k].data = captured_data[k].data

\* A saved log of two packets, one of them with bytes below 16 and above
\* 127, has been loaded.
C18_Witness ==
    /\ cap_pc = "saved" /\ file_read # NoFile
    /\ Len(captured_data) = 2
    /\ captured_data[1].data = <<10, 255>>
    /\ captured_data[2].data = <<0>>
    /\ Len(rep_packets) = 2

\* C19: between any two consecutive sends of a replay there is a delay
\* pause, whether the earlier send succeeded or failed.
C19_DelayBetweenSends ==
    \A k \in 1..(Len(rep_log) - 1) :
        rep_log[k].op = "write" => rep_log[k + 1].op = "sleep"

----------------------------------------------------------------------------
(* Properties of the controller *)

\* C13: when a signal interrupts a capture whose log is not empty and an
\* output file was asked for, the packets logged so far are saved before the
\* radio is released.
C13_InterruptSavesLog ==
    (/\ mode \in {"capture", "scan"}
     /\ arg_file
     /\ stop_mark # None
     /\ releases.capture > 0) =>
        (stop_mark.log # <<>> =>
            /\ saved # NoFile
            /\ LineEnds(saved) >= Len(stop_mark.log))

\* C14: each radio is powered down at most once at any time, and exactly
\* once when the run has ended, however many signals were delivered and
\* whichever way the run ended.
C14_ReleasedExactlyOnce ==
    /\ releases.capture <= 1
    /\ releases.repeat <= 1
    /\ ctl_pc = "exited" => releases = Released(NoRelease)

\* A step that calls radio.write on the repeat radio.
SendsPacket ==
    /\ Len(rep_log') = Len(rep_log) + 1
    /\ rep_log'[Len(rep_log')].op = "write"

\* C20: in repeat mode and in live repeat mode, every radio.write happens
\* on a repeat radio whose begin() succeeded and that is not listening.
C20_SendsOnlyInTransmitMode ==
    [][SendsPacket => rep_radio.begun /\ ~rep_radio.listening]_vars

\* Live repeat mode has sent two packets, the first of which failed.
C20_Witness ==
    /\ mode = "live"
    /\ Len(Writes) >= 2
    /\ ~Writes[1].ok
    /\ cap_radio.listening

\* The payloads handed to radio.write, in order.
Sent == [k \in 1..Len(Writes) |-> Writes[k].data]

\* live_repeat_mode is inside its loop.
InLiveLoop == ctl_pc \in {"live_while", "live_poll", "live_send",
                          "live_delay", "live_sleep"}

\* C21: in live repeat mode every payload of positive length read from the
\* capture radio is handed to radio.write before the capture radio is polled
\* again, so at every poll the payloads sent are the payloads read, in
\* order; and throughout the loop the capture radio is listening and the
\* repeat radio is not.
C21_LiveRepeatInOrder ==
    mode = "live" =>
        /\ ctl_pc \in {"live_while", "live_poll", "live_delay", "live_sleep"}
              => Sent = live_log
        /\ ctl_pc = "live_send"
              => /\ Len(live_log) = Len(Sent) + 1
                 /\ SubSeq(live_log, 1, Len(Sent)) = Sent
                 /\ live_log[Len(live_log)] = live_data
        /\ Len(Sent) <= Len(live_log)
        /\ Len(live_log) <= Len(Sent) + 1
        /\ InLiveLoop => /\ cap_radio.begun /\ cap_radio.listening
                         /\ rep_radio.begun /\ ~rep_radio.listening

\* The live loop polls again after two payloads were read and repeated.
C21_Witness ==
    /\ mode = "live"
    /\ ctl_pc = "live_poll"
    /\ Len(live_log) = 2
    /\ Sent = live_log

\* C22: the capture radio is in listening mode exactly while the capture
\* session is capturing; it is not listening before start_capture, after
\* start_capture returns, or after stop_capture.
C22_ListeningMirrorsSession == cap_radio.listening <=> is_capturing

----------------------------------------------------------------------------
(* Properties of the spectrum sweep *)

Detections(log) == {k \in 1..Len(log) : log[k].call # "flush_rx"}
Flushes(log) == {k \in 1..Len(log) : log[k].call = "flush_rx"}

\* C24: the hit of a visit is the disjunction of its three detection signals
\* (evaluated left to right until one is true); on a hit the channel's entry
\* grows by exactly one and the receive buffer is flushed once, without a hit
\* neither happens; no other step of a visit changes the histogram.
C24_HitCountsOnce ==
    [][/\ (sw_pc = "test" /\ sw_pc' = "show") =>
            LET log == sw_calls'
                hit == \E k \in Detections(log) : log[k].result
            IN  /\ hit => /\ values' = [values EXCEPT ![sw_channel + 1] = @ + 1]
                          /\ Cardinality(Flushes(log)) = 1
                          /\ log[Len(log)].call = "flush_rx"
                /\ ~hit => /\ values' = values
                           /\ Flushes(log) = {}
                           /\ Cardinality(Detections(log)) = 3
       /\ (sw_pc \in {"for", "listen", "sleep", "sample", "unlisten", "show"}
              /\ sw_pc' # "cancelled") =>
            /\ values' = values
            /\ Flushes(sw_calls') \subseteq Flushes(sw_calls)]_vars

\* A visit whose first two signals were false and whose third was true has
\* counted the channel and flushed the buffer.
C24_Witness ==
    /\ sw_pc = "show"
    /\ Len(sw_calls) = 4
    /\ ~sw_calls[1].result /\ ~sw_calls[2].result /\ sw_calls[3].result
    /\ sw_calls[4].call = "flush_rx"
    /\ values[sw_channel + 1] = 1

\* C25: within a visit every constituent detection signal is sampled while
\* the radio is listening, the flush comes after listening mode was left, and
\* the radio is out of listening mode when the visit ends and when the next
\* channel is selected.
C25_SampledWhileListening ==
    /\ \A k \in Detections(sw_calls) : sw_calls[k].listening
    /\ \A k \in Flushes(sw_calls) : ~sw_calls[k].listening
    /\ sw_pc \in {"for", "show", "while", "rep", "reset"} => ~sw_radio.listening

\* C26: the stop condition is checked at least once per channel visit: once
\* the duration has elapsed at most one further channel is selected, and
\* after an operator's interrupt none is.
C26_StopWithinOneVisit == overrun <= 1

\* C27: when a sweep is cancelled the histogram counted so far is handed to
\* the caller.
C27_CancelKeepsHistogram == sw_pc = "cancelled" => sw_result = values

\* The character for a count: "-" for zero, the hex digit of the count up to
\* 14, "F" from 15 on.
Clamped(count) ==
    IF count = 0 THEN "-"
    ELSE IF count >= 15 THEN "F"
    ELSE UpperHexDigits[count + 1]

\* C28: clamping is for display only: the character printed for a channel is
\* "-" for zero and else the hex digit of min(15, count), while a hit adds
\* exactly one to the stored count whatever its size, and scan_spectrum
\* returns the stored counts.
C28_ClampedForDisplayOnly ==
    [][/\ (sw_pc = "test" /\ sw_pc' = "show") =>
            values'[sw_channel + 1] =
                values[sw_channel + 1] +
                    (IF Flushes(sw_calls') # {} THEN 1 ELSE 0)
       /\ (sw_pc = "show" /\ sw_pc' = "for" /\ sweeper # "scanner_rich") =>
            shown'[sw_channel + 1] = Clamped(values[sw_channel + 1])
       /\ (sw_pc = "for" /\ sw_pc' = "rep" /\ sweeper = "scanner_rich") =>
            \A k \in 1..NumSpectrumChannels : shown'[k] = Clamped(values[k])
       /\ sw_pc' = "returned" => sw_result' = values]_vars

\* scan_spectrum has returned a count above 15 for a channel whose printed
\* character is "F".
C28_Witness ==
    /\ sw_pc = "returned"
    /\ \E k \in 1..NumSpectrumChannels :
         sw_result[k] > 15 /\ shown[k] = "F"

----------------------------------------------------------------------------
(* Properties of the interrupt and of a failed start *)

\* C29: when the operator's interrupt has ended the search, the radio has
\* been taken out of listening mode before the program exits.
C29_InterruptTearsDown == pc = "interrupted" => ~radio.listening

\* C30: a radio whose begin() failed is never used: the capture session
\* does not start, nothing is read, logged or sent on it, and the
\* RuntimeError of setup() leaves the mode function and main's try statement
\* (absent a signal, whose sys.exit would replace it).
C30_FailedBeginAborts ==
    /\ ~cap_radio.begun =>
          /\ cap_pc \in {"init", "failed"}
          /\ ~is_capturing
          /\ captured_data = <<>>
          /\ live_log = <<>>
    /\ ~rep_radio.begun =>
          /\ rep_pc \in {"init", "failed"}
          /\ ~is_repeating
          /\ rep_log = <<>>
    /\ (cap_pc = "failed" \/ rep_pc = "failed") =>
          /\ ~InLiveLoop
          /\ (ctl_pc \in {"finally", "exited"} /\ signals = 0)
                => exit_cause = "RuntimeError"

\* The capture radio did not answer and the run has ended with the
\* RuntimeError, nothing captured.
C30_Witness ==
    /\ cap_pc = "failed"
    /\ ctl_pc = "exited"
    /\ exit_cause = "RuntimeError"
    /\ captured_data = <<>>

----------------------------------------------------------------------------
(* Properties of the channel, the activity table and the log *)

\* The channels of the nRF24L01.
ValidChannels == 0..125

\* C31: the channel applied to a radio by setup() is within 0..125, whatever
\* the operator passed as --channel.
C31_ChannelInRange ==
    /\ cap_radio.begun => cap_radio.channel \in ValidChannels
    /\ rep_radio.begun => rep_radio.channel \in ValidChannels

\* The step in which start_capture begins a session.
SessionStarts == cap_pc = "ready" /\ cap_pc' # "ready"

\* C32: start_capture empties the activity table and the log before any
\* poll, and no other step removes an entry of the table or lowers a count.
C32_ActivityResetThenMonotone ==
    [][IF SessionStarts
       THEN channel_activity' = <<>> /\ captured_data' = <<>>
       ELSE /\ Len(channel_activity') >= Len(channel_activity)
            /\ \A k \in 1..Len(channel_activity) :
                 /\ channel_activity'[k].channel = channel_activity[k].channel
                 /\ channel_activity'[k].count >= channel_activity[k].count]_vars

\* A later session whose table was emptied at its start has counted two
\* packets on one channel and one on another.
C32_Witness ==
    /\ cap_pc = "returned"
    /\ Len(channel_activity) = 2
    /\ channel_activity[1].count = 2
    /\ channel_activity[2].count = 1

\* C33: the log is append-only during a session: a step of the session
\* leaves it unchanged or appends one packet at its end; after the session
\* has ended, and across save_capture, it is unchanged until start_capture
\* empties it for a new session.
C33_LogAppendOnly ==
    [][IF SessionStarts
       THEN captured_data' = <<>>
       ELSE /\ \/ captured_data' = captured_data
               \/ /\ Len(captured_data') = Len(captured_data) + 1
                  /\ SubSeq(captured_data', 1, Len(captured_data)) =
                         captured_data
            /\ ~Capturing => captured_data' = captured_data]_vars

\* A session has logged two packets, returned and been saved.
C33_Witness ==
    /\ cap_pc = "saved"
    /\ Len(captured_data) = 2
    /\ LineEnds(saved) = 2

\* Every packet of a list has a payload of positive length and a length
\* field equal to it.
WellFormed(pkts) ==
    \A k \in 1..Len(pkts) :
        /\ pkts[k].length > 0
        /\ pkts[k].length = Len(pkts[k].data)

----------------------------------------------------------------------------
(* Properties of stopping and of the release of the radios *)

\* C36: powerDown is issued only on a radio whose begin() has succeeded in
\* this run: not on the repeat radio of a capture-only run, and not on a
\* radio that did not answer.
C36_OnlyInitialisedRadios ==
    /\ ~cap_radio.begun => releases.capture = 0
    /\ ~rep_radio.begun => releases.repeat = 0

\* C37: a stop request made before start_capture is not lost: the step
\* that starts the session does not set it capturing again, so the session
\* polls nothing.
C37_StopRequestKept ==
    [][(cap_pc = "ready" /\ stop_mark # None) => ~is_capturing']_vars

\* The write calls of a log, and those that succeeded.
WritesIn(log) == {k \in 1..Len(log) : log[k].op = "write"}
SucceededIn(log) == {k \in WritesIn(log) : log[k].ok}

\* C39: after stop_repeat was called during repeat_sequence, only the payload
\* whose send was already under way is still transmitted: the loop does not
\* get to another send; the count returned is the number of sends that
\* succeeded, at most the number of attempts, and is_repeating is false on
\* return.
C39_StopRepeatEndsSequence ==
    [][/\ (rep_stopped /\ rep_pc # "send") =>
            /\ rep_pc' # "send"
            /\ WritesIn(rep_log') = WritesIn(rep_log)
       /\ (rep_stopped' /\ rep_pc' = "returned") =>
            /\ rep_result' = Cardinality(SucceededIn(rep_log'))
            /\ rep_result' <= Cardinality(WritesIn(rep_log'))
            /\ ~is_repeating']_vars

\* A sequence of three payloads stopped after its first send has returned
\* with one attempt made.
C39_Witness ==
    /\ rep_pc = "returned"
    /\ rep_stopped
    /\ Len(rep_packets) = 3
    /\ Cardinality(WritesIn(rep_log)) = 1

\* Every packet the radio delivered before the interrupt: those in
\* all_packets and those the unwound frames held.
ReadBeforeInterrupt == all_packets \o cs_dropped

\* C38: after an operator interrupt of the continuous scan, every packet read
\* before it, those of the window in progress included, is in the returned
\* list, and in the saved results when a file was asked for.
C38_InterruptLosesNoPacket ==
    cs_pc = "returned" =>
        /\ cs_result = ReadBeforeInterrupt
        /\ (output_file /\ ReadBeforeInterrupt # <<>>) =>
               cs_saved = ReadBeforeInterrupt

\* C40: every powerDown made once a signal was delivered finds is_capturing
\* and is_repeating cleared, and the one on the capture radio finds that
\* radio out of listening mode.
C40_StopBeforeRelease ==
    \A k \in 1..Len(powerdowns) :
        powerdowns[k].signals > 0 =>
            /\ ~powerdowns[k].capturing
            /\ ~powerdowns[k].repeating
            /\ (powerdowns[k].radio = "capture" => ~powerdowns[k].listening)

\* A signal reached a running capture session and the radios were released.
C40_Witness ==
    /\ stop_mark # None
    /\ \E k \in 1..Len(powerdowns) : powerdowns[k].signals > 0

====
